---- MODULE Spec2Model ----
(***************************************************************************)
(* LeadOwl Reddit Monitor: the token-bucket RateLimiter, the retrying      *)
(* executor withRateLimit, the OAuth RedditClient and the RedditCollector. *)
(*                                                                         *)
(* Time is in milliseconds (Date.now()).  The token count is a real number *)
(* in the source; here it is counted in 1/TokenUnit of a token, so that    *)
(* elapsedMs / 60000 * requestsPerMinute is an exact integer.              *)
(***************************************************************************)
EXTENDS Integers, Sequences, FiniteSets, TLC

\* ------------------------------------------------------------------ bounds
\* Concurrent callers sharing one RateLimiter (SpecLimiter).
NumCallers == 2
\* Granularity and horizon of the clock of SpecLimiter.
TickMs == 1000
MaxTicks == 4
\* Failed responses (rejected exchanges, task failures) one run may meet.
MaxFailures == 4
\* SpecUnit: the longest post list and the largest attempt number tried.
MaxPosts == 4
MaxAttempt == 5
\* SpecBurst: the requests one stream issues back to back.
MaxRequests == 35
\* SpecConfig: the largest maxRetries a limiter is constructed with.
MaxConfiguredRetries == 5

\* --------------------------------------------------------- configuration
\* DEFAULT_RATE_LIMIT_CONFIG
requestsPerMinute == 30
burstLimit == 10
backoffMultiplier == 2
maxBackoffMs == 5 * 60 * 1000
maxRetries == 3
\* refillTokens: elapsedMinutes = elapsedMs / 60000
TokenUnit == 60000
\* getBackoffDelay: baseDelay
baseDelay == 1000

\* retryAfterSeconds is optional: undefined (or NaN) is NoValue.
NoValue == -1

Min(a, b) == IF a <= b THEN a ELSE b
CeilDiv(a, b) == (a + b - 1) \div b

VARIABLES
    now,          \* Date.now()
    tokens,       \* RateLimiter.tokens, in 1/TokenUnit
    lastRefill,   \* RateLimiter.lastRefill
    cpc,          \* SpecLimiter: where each concurrent caller is
    cwake,        \* SpecLimiter: deadline of each caller's setTimeout
    grantLog,     \* SpecLimiter: the instants at which waitForToken returned
    pc,           \* Spec: where the collection run is
    keywordIdx,   \* collect(): position of the keyword loop
    collectPosts, \* collect(): allPosts
    subredditIdx, \* search(): position of the subreddit loop
    searchPosts,  \* search(): allPosts
    accessToken,  \* RedditClient.accessToken (NoToken: null)
    tokenExpiry,  \* RedditClient.tokenExpiry
    attempt,      \* withRateLimit(): attempt
    lastError,    \* withRateLimit(): lastError
    sleepMs,      \* delay of the pending setTimeout
    thrown,       \* the error being propagated to a catch block
    leads,        \* what collect() returned
    result,       \* SpecRetry: what withRateLimit() returned; SpecUnit: the call made
    hist          \* observations of the run (not program state)

limiterVars == <<tokens, lastRefill>>
callerVars == <<cpc, cwake, grantLog>>
collectVars == <<keywordIdx, collectPosts, leads, result>>
searchVars == <<subredditIdx, searchPosts>>
authVars == <<accessToken, tokenExpiry>>
retryVars == <<attempt, lastError, sleepMs>>
runVars == <<pc, keywordIdx, collectPosts, subredditIdx, searchPosts, accessToken,
             tokenExpiry, attempt, lastError, sleepMs, thrown, leads, result, hist>>

\* runVars less the OAuth session and the observations
streamVars == <<pc, keywordIdx, collectPosts, subredditIdx, searchPosts, attempt, lastError,
                sleepMs, thrown, leads, result>>

vars == <<now, tokens, lastRefill, cpc, cwake, grantLog, runVars>>

Callers == 1 .. NumCallers

\* ------------------------------------------------------------ RateLimiter
refillTokensIgnoresElapsed(tok, last, t) == Min(burstLimit * TokenUnit, tok)

\* refillTokens(): this.tokens after a refill at instant t.
refillTokens(tok, last, t) ==
    Min(burstLimit * TokenUnit, tok + (t - last) * requestsPerMinute)

msToWaitHalved(tok) == CeilDiv(TokenUnit - tok, 2 * requestsPerMinute)

\* waitForToken(): msToWait = ceil((1 - tokens) / requestsPerMinute * 60000)
msToWait(tok) == CeilDiv(TokenUnit - tok, requestsPerMinute)

throttleWaitMsIgnoresHint(retryAfterSeconds) == maxBackoffMs

\* handleRateLimitResponse(): a falsy retryAfterSeconds (undefined, NaN, 0)
\* selects maxBackoffMs.
throttleWaitMs(retryAfterSeconds) ==
    IF retryAfterSeconds # NoValue /\ retryAfterSeconds # 0
    THEN retryAfterSeconds * 1000
    ELSE maxBackoffMs

\* 2^n, for getBackoffDelay
RECURSIVE Pow(_, _)
Pow(b, n) == IF n = 0 THEN 1 ELSE b * Pow(b, n - 1)

\* DEFAULT_RATE_LIMIT_CONFIG
DEFAULT_RATE_LIMIT_CONFIG ==
    [requestsPerMinute |-> requestsPerMinute, burstLimit |-> burstLimit,
     backoffMultiplier |-> backoffMultiplier, maxBackoffMs |-> maxBackoffMs,
     maxRetries |-> maxRetries]

getBackoffDelayUncapped(config, n) == baseDelay * Pow(config.backoffMultiplier, n)

\* getBackoffDelay(attempt) of a RateLimiter constructed with config
getBackoffDelayOf(config, n) ==
    Min(baseDelay * Pow(config.backoffMultiplier, n), config.maxBackoffMs)

\* limiter.getBackoffDelay(attempt): this.config is hist.config
getBackoffDelay(n) == getBackoffDelayOf(hist.config, n)

shouldRetryInclusive(n) == n <= hist.config.maxRetries

\* limiter.shouldRetry(attempt): attempt < this.config.maxRetries
shouldRetry(n) == n < hist.config.maxRetries

\* ------------------------------------------------------------- strings
\* A text is a sequence of characters.
UpperCase == <<"A", "B", "C", "D", "E", "F", "G", "H", "I", "J", "K", "L", "M", "N", "O", "P",
    "Q", "R", "S", "T", "U", "V", "W", "X", "Y", "Z">>
LowerCase == <<"a", "b", "c", "d", "e", "f", "g", "h", "i", "j", "k", "l", "m", "n", "o", "p",
    "q", "r", "s", "t", "u", "v", "w", "x", "y", "z">>

\* The lower-case letter of each upper-case letter
LowerOf ==
    [c \in {UpperCase[j] : j \in 1 .. Len(UpperCase)} |->
        LowerCase[CHOOSE j \in 1 .. Len(UpperCase) : UpperCase[j] = c]]

\* String.prototype.toLowerCase
toLowerCase(s) ==
    [i \in 1 .. Len(s) |-> IF s[i] \in DOMAIN LowerOf THEN LowerOf[s[i]] ELSE s[i]]

\* String.prototype.includes
includes(text, part) ==
    \E i \in 0 .. Len(text) - Len(part) : SubSeq(text, i + 1, i + Len(part)) = part

\* String.prototype.startsWith
startsWith(text, part) ==
    Len(text) >= Len(part) /\ SubSeq(text, 1, Len(part)) = part

Digits == <<"0", "1", "2", "3", "4", "5", "6", "7", "8", "9">>
DigitValue(c) == (CHOOSE j \in 1 .. Len(Digits) : Digits[j] = c) - 1
IsDigit(c) == \E j \in 1 .. Len(Digits) : Digits[j] = c

\* parseInt(s, 10): the value of the leading run of digits after leading
\* blanks; NaN (NoValue) when there is none.
RECURSIVE ParseDigits(_, _, _)
ParseDigits(s, i, acc) ==
    IF i <= Len(s) /\ IsDigit(s[i])
    THEN ParseDigits(s, i + 1, acc * 10 + DigitValue(s[i]))
    ELSE acc

RECURSIVE SkipBlanks(_, _)
SkipBlanks(s, i) == IF i <= Len(s) /\ s[i] = " " THEN SkipBlanks(s, i + 1) ELSE i

parseInt(s) ==
    LET i == SkipBlanks(s, 1) IN
    IF i <= Len(s) /\ IsDigit(s[i]) THEN ParseDigits(s, i, 0) ELSE NoValue

\* ----------------------------------------------------------- collector data
\* MONITORED_SUBREDDITS (the first two of the list)
MONITORED_SUBREDDITS == <<"webdev", "SaaS">>

\* PRODUCT_KEYWORDS (two products, the first keyword of each), in the order of
\* Object.entries
PRODUCT_KEYWORDS ==
    << [product |-> "snapforge", keywords |-> << <<"s", "c", "r", "e", "e", "n", "s", "h", "o",
        "t", " ", "a", "p", "i">> >>],
       [product |-> "docforge", keywords |-> << <<"p", "d", "f", " ", "a", "p", "i">> >>] >>

INTENT_KEYWORDS ==
    << <<"l", "o", "o", "k", "i", "n", "g", " ", "f", "o", "r">>,
       <<"r", "e", "c", "o", "m", "m", "e", "n", "d">>,
       <<"a", "l", "t", "e", "r", "n", "a", "t", "i", "v", "e", " ", "t", "o">>,
       <<"b", "e", "s", "t", " ", "t", "o", "o", "l", " ", "f", "o", "r">>,
       <<"a", "n", "y", "o", "n", "e", " ", "k", "n", "o", "w">>,
       <<"n", "e", "e", "d", " ", "a">>,
       <<"s", "e", "a", "r", "c", "h", "i", "n", "g", " ", "f", "o", "r">> >>

\* The keywords in the order collect() searches them.
RECURSIVE FlattenKeywords(_)
FlattenKeywords(products) ==
    IF products = <<>> THEN <<>>
    ELSE Head(products).keywords \o FlattenKeywords(Tail(products))

AllKeywords == FlattenKeywords(PRODUCT_KEYWORDS)

\* The children a search listing may hold (RedditSearchResponse.data.children[i].data).
\* Child 3 is the post of child 1 as fetched again after an edit: the same id.
RawChildren ==
    << [id |-> "a", subreddit |-> "webdev", author |-> "u1", permalink |-> "/r/webdev/a",
        created_utc |-> 100, score |-> 3, num_comments |-> 1, selftext |-> <<>>,
        title |-> <<"L", "o", "o", "k", "i", "n", "g", " ", "f", "o", "r", " ", "a", " ", "s",
            "c", "r", "e", "e", "n", "s", "h", "o", "t", " ", "A", "P", "I", " ", "f", "o", "r",
            " ", "m", "y", " ", "S", "a", "a", "S">>],
       [id |-> "b", subreddit |-> "SaaS", author |-> "u2", permalink |-> "/r/SaaS/b",
        created_utc |-> 200, score |-> 1, num_comments |-> 0, selftext |-> <<>>,
        title |-> <<"n", "i", "c", "e", " ", "t", "o", "o", "l", "!">>],
       [id |-> "a", subreddit |-> "webdev", author |-> "u1", permalink |-> "/r/webdev/a",
        created_utc |-> 100, score |-> 4, num_comments |-> 2, selftext |-> <<>>,
        title |-> <<"W", "h", "i", "c", "h", " ", "p", "d", "f", " ", "a", "p", "i", "?">>],
       [id |-> "c", subreddit |-> "SaaS", author |-> "u3", permalink |-> "/r/SaaS/c",
        created_utc |-> 300, score |-> 9, num_comments |-> 5,
        title |-> <<"a", "p", "i", " ", "f", "o", "r", " ", "p", "d", "f">>,
        selftext |-> <<"I", "s", " ", "t", "h", "e", "r", "e", " ", "a", "n", "y", " ", "h", "o",
            "s", "t", "e", "d", " ", "s", "e", "r", "v", "i", "c", "e", " ", "t", "h", "a", "t",
            " ", "r", "e", "n", "d", "e", "r", "s", " ", "i", "n", "v", "o", "i", "c", "e", "s",
            " ", "w", "e", "l", "l", "?">>] >>

\* What Reddit may list for the search of a keyword in a subreddit (sequences
\* of children): child 1 is listed again, edited, for the second keyword.
Listings(keyword, subreddit) ==
    CASE keyword = 1 /\ subreddit = 1 -> {<<1, 2>>}
      [] keyword = 1 /\ subreddit = 2 -> {<<>>, <<4>>}
      [] keyword = 2 /\ subreddit = 1 -> {<<3>>}
      [] OTHER -> {<<4, 2>>}

\* RedditClient.transformPost
transformPost(data) ==
    [id |-> data.id, subreddit |-> data.subreddit, title |-> data.title,
     content |-> data.selftext, author |-> data.author,
     url |-> "https://reddit.com" \o data.permalink, createdUtc |-> data.created_utc,
     score |-> data.score, numComments |-> data.num_comments]

\* response.data.children.map((child) => this.transformPost(child.data)); a
\* decoded post is immutable, and the state holds it by its child's index.
Decoded(children) == [i \in 1 .. Len(children) |-> transformPost(RawChildren[children[i]])]

\* -------------------------------------------------------- RedditCollector
RECURSIVE DedupKeepsLast(_, _, _)
DedupKeepsLast(posts, i, seen) ==
    IF i > Len(posts) THEN <<>>
    ELSE IF \E j \in i + 1 .. Len(posts) : posts[j].id = posts[i].id
         THEN DedupKeepsLast(posts, i + 1, seen)
         ELSE <<posts[i]>> \o DedupKeepsLast(posts, i + 1, seen \cup {posts[i].id})

\* deduplicatePosts: posts.filter with the Set seen
RECURSIVE DedupFrom(_, _, _)
DedupFrom(posts, i, seen) ==
    IF i > Len(posts) THEN <<>>
    ELSE IF posts[i].id \in seen
         THEN DedupFrom(posts, i + 1, seen)
         ELSE <<posts[i]>> \o DedupFrom(posts, i + 1, seen \cup {posts[i].id})

deduplicatePosts(posts) == DedupFrom(posts, 1, {})

\* [...new Set(matched)]: the first occurrence of each element, in order
RECURSIVE UniqueFrom(_, _)
UniqueFrom(s, i) ==
    IF i > Len(s) THEN <<>>
    ELSE IF \E j \in 1 .. i - 1 : s[j] = s[i]
         THEN UniqueFrom(s, i + 1)
         ELSE <<s[i]>> \o UniqueFrom(s, i + 1)

\* `${a} ${b}`
Spaced(a, b) == a \o <<" ">> \o b

findMatchedKeywordsCaseSensitive(post) ==
    LET text == Spaced(post.title, post.content)
        matched == SelectSeq(AllKeywords, LAMBDA k : includes(text, k))
    IN  UniqueFrom(matched, 1)

\* findMatchedKeywords
findMatchedKeywords(post) ==
    LET text == toLowerCase(Spaced(post.title, post.content))
        matched == SelectSeq(AllKeywords, LAMBDA k : includes(text, toLowerCase(k)))
    IN  UniqueFrom(matched, 1)

\* transformToLead
transformToLead(post, collectedAt) ==
    [id |-> "reddit_" \o post.id,
     source |-> "reddit",
     sourceId |-> post.id,
     sourceUrl |-> post.url,
     title |-> post.title,
     content |-> post.content,
     author |-> post.author,
     authorUrl |-> "https://reddit.com/u/" \o post.author,
     matchedKeywords |-> findMatchedKeywords(post),
     collectedAt |-> collectedAt,
     sourceCreatedAt |-> post.createdUtc * 1000]

hasGenuineIntentIgnoresSubstance(lead) ==
    LET text == toLowerCase(Spaced(lead.title, lead.content))
    IN  \/ \E i \in 1 .. Len(INTENT_KEYWORDS) : includes(text, INTENT_KEYWORDS[i])
        \/ includes(text, <<"?">>)
        \/ startsWith(text, <<"h", "o", "w">>)
        \/ startsWith(text, <<"w", "h", "a", "t">>)
        \/ startsWith(text, <<"w", "h", "i", "c", "h">>)
        \/ startsWith(text, <<"a", "n", "y">>)

\* hasGenuineIntent
hasGenuineIntent(lead) ==
    LET text == toLowerCase(Spaced(lead.title, lead.content))
        hasIntentKeyword ==
            \E i \in 1 .. Len(INTENT_KEYWORDS) : includes(text, INTENT_KEYWORDS[i])
        isQuestion ==
            \/ includes(text, <<"?">>)
            \/ startsWith(text, <<"h", "o", "w">>)
            \/ startsWith(text, <<"w", "h", "a", "t">>)
            \/ startsWith(text, <<"w", "h", "i", "c", "h">>)
            \/ startsWith(text, <<"a", "n", "y">>)
        hasSubstance == Len(lead.content) > 50 \/ Len(lead.title) > 30
    IN  (hasIntentKeyword \/ isQuestion) /\ hasSubstance

collectLeadsNoDedup(allPosts, collectedAt) ==
    LET transformed == [i \in 1 .. Len(allPosts) |-> transformToLead(allPosts[i], collectedAt)]
    IN  SelectSeq(transformed, hasGenuineIntent)

collectLeadsMatchedOnly(allPosts, collectedAt) ==
    LET uniquePosts == deduplicatePosts(allPosts)
        transformed == [i \in 1 .. Len(uniquePosts) |->
                            transformToLead(uniquePosts[i], collectedAt)]
    IN  SelectSeq(transformed,
                  LAMBDA lead : hasGenuineIntent(lead) /\ lead.matchedKeywords # <<>>)

\* collect(), after the searches: deduplicate, transform, filter
collectLeads(allPosts, collectedAt) ==
    LET uniquePosts == deduplicatePosts(allPosts)
        transformed == [i \in 1 .. Len(uniquePosts) |->
                            transformToLead(uniquePosts[i], collectedAt)]
    IN  SelectSeq(transformed, hasGenuineIntent)

\* ------------------------------------------------------------ run state
\* accessToken: string | null = null
NoToken == 0
\* tokenExpiry = Date.now() + (data.expires_in - 300) * 1000
SafetyMarginSeconds == 300

NoError == [kind |-> "none", code |-> 0]
\* new RateLimitError('Rate limited by Reddit', retryAfter)
RateLimitError(retryAfter) == [kind |-> "RateLimitError", code |-> retryAfter]
\* new Error(`Reddit API error: ${response.status}`), `Reddit auth failed: ...`
Error(status) == [kind |-> "Error", code |-> status]
\* fetch() rejects on a network fault
NetworkFault == [kind |-> "TypeError", code |-> 0]
\* what an onRetry observer throws
ObserverError == [kind |-> "ObserverError", code |-> 0]
\* options.onRetry: absent, a function that returns, a function that throws
Observers == {"returns", "raises"}

\* What the services may answer.
ExpiresInChoices == {301, 3600}
RetryAfterHeaders == {<<>>, <<"1">>}
FailureStatuses == {500}
\* What a task handed to withRateLimit() directly may do (SpecRetry).
RetryAfterValues == {NoValue, 0, 1, 2, 60}
TaskFailures == {Error(500), NetworkFault}
TaskValues == {7}
AuthFailures == {Error(401)}

\* A Response of fetch: its status, its Retry-After header (<<>>: none) and
\* the children of the listing in its body.
NoResponse == [status |-> 0, retryAfter |-> <<>>, body |-> <<>>]

\* Observations kept beside the program state: per withRateLimit call
\* (invocations .. fnErrors, and response: the last response its task
\* received), per search() call (requested, fetched), per run
\* (failures .. sentAfterReject; exhausted: a withRateLimit call gave up and
\* threw; searches: the search() calls that returned, each with the subreddits
\* it requested; listed: the children of every listing received, in order)
\* and per access token: tokenResponse is the
\* response that brought it, tokenExchanges the exchanges sent since (that one
\* included), windowRequests the request() calls made while it was valid.
\* onRetry is the observer in the options of the withRateLimit call ("none":
\* no options, as request() calls it), observed the calls it received,
\* carried the access token of each fetch of the call, authenticatedAt the
\* instant authenticate() returned to request(), requests the request() calls
\* of the run as they start and end.  config is the RateLimitConfig the
\* limiter was constructed with (this.config, readonly).  SpecStatus:
\* unobserved is the limiter of the same run with its getStatus() calls left
\* out, lastWait the sleep of the last waitForToken() call (0: none) for the
\* limiter and for that one.
InitHist ==
    [config |-> DEFAULT_RATE_LIMIT_CONFIG,
     unobserved |-> [tokens |-> burstLimit * TokenUnit, lastRefill |-> 0],
     lastWait |-> [observed |-> 0, unobserved |-> 0],
     invocations |-> 0, acquisitions |-> 0, waitLog |-> <<>>, fnErrors |-> <<>>,
     onRetry |-> "none", observed |-> <<>>, carried |-> <<>>, authenticatedAt |-> 0,
     requests |-> <<>>,
     requested |-> <<>>, fetched |-> <<>>,
     failures |-> 0, exchanges |-> 0, authRejected |-> FALSE, sentAfterReject |-> FALSE,
     exhausted |-> FALSE, response |-> NoResponse, searches |-> <<>>, listed |-> <<>>,
     tokenExchanges |-> 0, windowRequests |-> 0,
     tokenResponse |-> [access_token |-> NoToken, expires_in |-> 0, receivedAt |-> 0]]

NewCall(h) ==
    [h EXCEPT !.invocations = 0, !.acquisitions = 0, !.waitLog = <<>>, !.fnErrors = <<>>,
              !.observed = <<>>, !.carried = <<>>, !.response = NoResponse]

NewSearch(h) == [h EXCEPT !.requested = <<>>, !.fetched = <<>>]

\* new RedditClient(config) and new RedditCollector(client); position: where
\* the run stands; h: the observations at the start.
Constructed(position, h) ==
    /\ pc = position
    /\ keywordIdx = 1
    /\ collectPosts = <<>>
    /\ subredditIdx = 1
    /\ searchPosts = <<>>
    /\ accessToken = NoToken
    /\ tokenExpiry = 0
    /\ attempt = 0
    /\ lastError = NoError
    /\ sleepMs = 0
    /\ thrown = NoError
    /\ leads = <<>>
    /\ result = NoValue
    /\ hist = h

ClientConstructed(position) == Constructed(position, InitHist)

\* ------------------------------------- SpecLimiter: concurrent callers
RetryAfterChoices == {NoValue, 1}

InitLimiter ==
    /\ now = 0
    /\ tokens = burstLimit * TokenUnit
    /\ lastRefill = 0
    /\ cpc = [p \in Callers |-> "idle"]
    /\ cwake = [p \in Callers |-> 0]
    /\ grantLog = <<>>
    /\ ClientConstructed("idle")

\* The clock advances; a timer that is due may still fire later.
Tick ==
    /\ now < MaxTicks * TickMs
    /\ now' = now + TickMs
    /\ UNCHANGED <<tokens, lastRefill, cpc, cwake, grantLog, runVars>>

\* waitForToken() up to its return or its await this.sleep(msToWait)
CallWaitForToken(p) ==
    /\ cpc[p] = "idle"
    /\ LET t == refillTokens(tokens, lastRefill, now) IN
       /\ lastRefill' = now
       /\ IF t >= TokenUnit
          THEN /\ tokens' = t - TokenUnit
               /\ grantLog' = Append(grantLog, now)
               /\ UNCHANGED <<cpc, cwake>>
          ELSE /\ tokens' = t
               /\ cpc' = [cpc EXCEPT ![p] = "waitForToken_sleep"]
               /\ cwake' = [cwake EXCEPT ![p] = now + msToWait(t)]
               /\ UNCHANGED grantLog
    /\ UNCHANGED <<now, runVars>>

\* waitForToken() after the sleep: refillTokens(); this.tokens -= 1
ResumeWaitForToken(p) ==
    /\ cpc[p] = "waitForToken_sleep"
    /\ now >= cwake[p]
    /\ tokens' = refillTokens(tokens, lastRefill, now) - TokenUnit
    /\ lastRefill' = now
    /\ cpc' = [cpc EXCEPT ![p] = "idle"]
    /\ grantLog' = Append(grantLog, now)
    /\ UNCHANGED <<now, cwake, runVars>>

\* handleRateLimitResponse(retryAfterSeconds) up to its await this.sleep(waitMs)
CallHandleRateLimitResponse(p, r) ==
    /\ cpc[p] = "idle"
    /\ tokens' = 0
    /\ cpc' = [cpc EXCEPT ![p] = "handleRateLimitResponse_sleep"]
    /\ cwake' = [cwake EXCEPT ![p] = now + throttleWaitMs(r)]
    /\ UNCHANGED <<now, lastRefill, grantLog, runVars>>

ResumeHandleRateLimitResponse(p) ==
    /\ cpc[p] = "handleRateLimitResponse_sleep"
    /\ now >= cwake[p]
    /\ cpc' = [cpc EXCEPT ![p] = "idle"]
    /\ UNCHANGED <<now, tokens, lastRefill, cwake, grantLog, runVars>>

\* getStatus(): refillTokens() and a read
CallGetStatus(p) ==
    /\ cpc[p] = "idle"
    /\ tokens' = refillTokens(tokens, lastRefill, now)
    /\ lastRefill' = now
    /\ UNCHANGED <<now, cpc, cwake, grantLog, runVars>>

NextLimiter ==
    \/ Tick
    \/ \E p \in Callers : CallWaitForToken(p)
    \/ \E p \in Callers : ResumeWaitForToken(p)
    \/ \E p \in Callers, r \in RetryAfterChoices : CallHandleRateLimitResponse(p, r)
    \/ \E p \in Callers : ResumeHandleRateLimitResponse(p)
    \/ \E p \in Callers : CallGetStatus(p)

SpecLimiter == InitLimiter /\ [][NextLimiter]_vars

\* C1: in every reachable state of a RateLimiter shared by concurrent callers
\* the token count satisfies 0 <= tokens <= burstLimit.
TokensWithinBucket == 0 <= tokens /\ tokens <= burstLimit * TokenUnit

\* C2: the number of waitForToken calls that returned within any time window
\* of length T never exceeds burstLimit + T * requestsPerMinute (T in minutes).
GrantsWithinRate ==
    \A i, j \in 1 .. Len(grantLog) :
        i <= j =>
            (j - i + 1) * TokenUnit
                <= burstLimit * TokenUnit
                   + (grantLog[j] - grantLog[i]) * requestsPerMinute
\* ---------------------------------------------- Spec: one collection run
\* runCollection(): one logical stream, collect() -> search() -> request()
\* -> authenticate(), withRateLimit() -> waitForToken(), fetch.  A sleep of
\* this stream ends when its setTimeout delay has passed.
Init ==
    /\ now = 0
    /\ tokens = burstLimit * TokenUnit
    /\ lastRefill = 0
    /\ cpc = [p \in Callers |-> "idle"]
    /\ cwake = [p \in Callers |-> 0]
    /\ grantLog = <<>>
    /\ ClientConstructed("collect")

\* collect(): the keyword loop calls this.client.search(keyword, subreddits)
CollectSearch ==
    /\ pc = "collect"
    /\ keywordIdx <= Len(AllKeywords)
    /\ pc' = "search"
    /\ subredditIdx' = 1
    /\ searchPosts' = <<>>
    /\ hist' = NewSearch(hist)
    /\ UNCHANGED <<now, limiterVars, callerVars, collectVars, authVars, retryVars, thrown>>

\* collect(): after the loop, deduplicate, transform, filter, return
CollectReturn ==
    /\ pc = "collect"
    /\ keywordIdx > Len(AllKeywords)
    /\ leads' = collectLeads(Decoded(collectPosts), now)
    /\ pc' = "returned"
    /\ UNCHANGED <<now, limiterVars, callerVars, keywordIdx, collectPosts, result,
                   searchVars, authVars, retryVars, thrown, hist>>

\* search(): the subreddit loop calls this.request(endpoint)
SearchRequest ==
    /\ pc = "search"
    /\ subredditIdx <= Len(MONITORED_SUBREDDITS)
    /\ pc' = "authenticate"
    /\ hist' = [hist EXCEPT
                   !.requested = Append(@, subredditIdx),
                   !.requests = Append(@, <<"start", keywordIdx, subredditIdx>>),
                   !.windowRequests =
                       IF accessToken # NoToken /\ now < tokenExpiry THEN @ + 1 ELSE @]
    /\ UNCHANGED <<now, limiterVars, callerVars, collectVars, searchVars, authVars,
                   retryVars, thrown>>

\* search(): return allPosts; collect(): allPosts.push(...posts)
SearchReturn ==
    /\ pc = "search"
    /\ subredditIdx > Len(MONITORED_SUBREDDITS)
    /\ collectPosts' = collectPosts \o searchPosts
    /\ keywordIdx' = keywordIdx + 1
    /\ pc' = "collect"
    /\ hist' = [hist EXCEPT !.searches = Append(@, <<keywordIdx, hist.requested>>)]
    /\ UNCHANGED <<now, limiterVars, callerVars, leads, result, searchVars, authVars,
                   retryVars, thrown>>

SearchCatchAborts ==
    /\ pc = "catch"
    /\ thrown' = NoError
    /\ subredditIdx' = Len(MONITORED_SUBREDDITS) + 1
    /\ pc' = "search"
    /\ UNCHANGED <<now, limiterVars, callerVars, collectVars, searchPosts, authVars,
                   retryVars, hist>>

SearchCatchRepeats ==
    /\ pc = "catch"
    /\ thrown' = NoError
    /\ pc' = "search"
    /\ hist' = [hist EXCEPT !.requests = Append(@, <<"end", keywordIdx, subredditIdx>>)]
    /\ UNCHANGED <<now, limiterVars, callerVars, collectVars, searchVars, authVars,
                   retryVars>>

\* search(): catch (error) { console.error(...) }, then the next subreddit
SearchCatch ==
    /\ pc = "catch"
    /\ thrown' = NoError
    /\ subredditIdx' = subredditIdx + 1
    /\ pc' = "search"
    /\ hist' = [hist EXCEPT !.requests = Append(@, <<"end", keywordIdx, subredditIdx>>)]
    /\ UNCHANGED <<now, limiterVars, callerVars, collectVars, searchPosts, authVars,
                   retryVars>>

tokenValidInclusive == accessToken # NoToken /\ now <= tokenExpiry

tokenValidNever == FALSE

\* authenticate(): if (this.accessToken && Date.now() < this.tokenExpiry) return
tokenValid == accessToken # NoToken /\ now < tokenExpiry

\* withRateLimit() is entered: let lastError = null; attempt = 0
EnterWithRateLimit ==
    /\ pc' = "withRateLimit"
    /\ attempt' = 0
    /\ lastError' = NoError
    /\ sleepMs' = 0

AuthenticateCachedUnchecked ==
    /\ pc = "authenticate"
    /\ accessToken # NoToken
    /\ EnterWithRateLimit
    /\ hist' = [NewCall(hist) EXCEPT !.authenticatedAt = now]
    /\ UNCHANGED <<now, limiterVars, callerVars, collectVars, searchVars, authVars, thrown>>

\* request(): await this.authenticate() with a valid token, then withRateLimit
AuthenticateCached ==
    /\ pc = "authenticate"
    /\ tokenValid
    /\ EnterWithRateLimit
    /\ hist' = [NewCall(hist) EXCEPT !.authenticatedAt = now]
    /\ UNCHANGED <<now, limiterVars, callerVars, collectVars, searchVars, authVars, thrown>>

\* authenticate(): no valid token, POST to AUTH_URL
AuthenticateExchange ==
    /\ pc = "authenticate"
    /\ ~tokenValid
    /\ pc' = "exchange"
    /\ hist' = [hist EXCEPT !.exchanges = @ + 1, !.tokenExchanges = @ + 1]
    /\ UNCHANGED <<now, limiterVars, callerVars, collectVars, searchVars, authVars,
                   retryVars, thrown>>

\* authenticate(): the token response is stored; request() goes on
ExchangeOk(expires_in) ==
    /\ pc = "exchange"
    /\ accessToken' = hist.exchanges
    /\ tokenExpiry' = now + (expires_in - SafetyMarginSeconds) * 1000
    /\ EnterWithRateLimit
    /\ hist' = [NewCall(hist) EXCEPT
                   !.authenticatedAt = now,
                   !.tokenExchanges = 1,
                   !.windowRequests = 0,
                   !.tokenResponse = [access_token |-> hist.exchanges,
                                      expires_in |-> expires_in,
                                      receivedAt |-> now]]
    /\ UNCHANGED <<now, limiterVars, callerVars, collectVars, searchVars, thrown>>

ExchangeRejectedStoresResponse(error) ==
    /\ pc = "exchange"
    /\ hist.failures < MaxFailures
    /\ thrown' = error
    /\ pc' = "catch"
    /\ accessToken' = hist.exchanges
    /\ tokenExpiry' = now
    /\ hist' = [hist EXCEPT !.authRejected = TRUE, !.failures = @ + 1]
    /\ UNCHANGED <<now, limiterVars, callerVars, collectVars, searchVars, retryVars>>

\* authenticate(): if (!response.ok) throw new Error(`Reddit auth failed: ...`);
\* request() does not catch it, search() does
ExchangeRejected(error) ==
    /\ pc = "exchange"
    /\ hist.failures < MaxFailures
    /\ thrown' = error
    /\ pc' = "catch"
    /\ hist' = [hist EXCEPT !.authRejected = TRUE, !.failures = @ + 1]
    /\ UNCHANGED <<now, limiterVars, callerVars, collectVars, searchVars, authVars, retryVars>>
WaitForTokenFirstAttemptOnly ==
    /\ pc = "withRateLimit"
    /\ LET t == refillTokens(tokens, lastRefill, now) IN
       /\ IF attempt > 0
          THEN /\ pc' = "call_fn"
               /\ UNCHANGED <<tokens, lastRefill, sleepMs, hist>>
          ELSE /\ lastRefill' = now
               /\ IF t >= TokenUnit
                  THEN /\ tokens' = t - TokenUnit
                       /\ pc' = "call_fn"
                       /\ sleepMs' = 0
                       /\ hist' = [hist EXCEPT !.acquisitions = @ + 1]
                  ELSE /\ tokens' = t
                       /\ pc' = "waitForToken_sleep"
                       /\ sleepMs' = msToWait(t)
                       /\ hist' = [hist EXCEPT
                                      !.waitLog = Append(@, <<"token", msToWait(t)>>)]
    /\ UNCHANGED <<now, callerVars, collectVars, searchVars, authVars, attempt, lastError,
                   thrown>>

\* withRateLimit(): await limiter.waitForToken(), up to its return or its sleep
WaitForToken ==
    /\ pc = "withRateLimit"
    /\ LET t == refillTokens(tokens, lastRefill, now) IN
       /\ lastRefill' = now
       /\ IF t >= TokenUnit
          THEN /\ tokens' = t - TokenUnit
               /\ pc' = "call_fn"
               /\ sleepMs' = 0
               /\ hist' = [hist EXCEPT !.acquisitions = @ + 1]
          ELSE /\ tokens' = t
               /\ pc' = "waitForToken_sleep"
               /\ sleepMs' = msToWait(t)
               /\ hist' = [hist EXCEPT !.waitLog = Append(@, <<"token", msToWait(t)>>)]
    /\ UNCHANGED <<now, callerVars, collectVars, searchVars, authVars, attempt, lastError,
                   thrown>>

\* waitForToken() after its sleep: refillTokens(); this.tokens -= 1
WaitForTokenResume ==
    /\ pc = "waitForToken_sleep"
    /\ now' = now + sleepMs
    /\ tokens' = refillTokens(tokens, lastRefill, now') - TokenUnit
    /\ lastRefill' = now'
    /\ sleepMs' = 0
    /\ pc' = "call_fn"
    /\ hist' = [hist EXCEPT !.acquisitions = @ + 1]
    /\ UNCHANGED <<callerVars, collectVars, searchVars, authVars, attempt, lastError, thrown>>

\* withRateLimit(): return await fn(); request()'s task sends the GET
CallFn ==
    /\ pc = "call_fn"
    /\ pc' = "fn"
    /\ hist' = [hist EXCEPT !.invocations = @ + 1,
                            !.carried = Append(@, accessToken),
                            !.sentAfterReject = @ \/ hist.authRejected]
    /\ UNCHANGED <<now, limiterVars, callerVars, collectVars, searchVars, authVars,
                   retryVars, thrown>>

\* What the Search API may answer to the request for a keyword in a subreddit.
Responses(keyword, subreddit) ==
    {[status |-> 200, retryAfter |-> <<>>, body |-> listing] :
        listing \in Listings(keyword, subreddit)}
    \cup {[status |-> 429, retryAfter |-> header, body |-> <<>>] : header \in RetryAfterHeaders}
    \cup {[status |-> status, retryAfter |-> <<>>, body |-> <<>>] : status \in FailureStatuses}

\* Response.ok
ok(status) == 200 <= status /\ status <= 299

\* request()'s task on status 429:
\* parseInt(response.headers.get('Retry-After') || '60', 10)
retryAfterOf(header) == parseInt(IF header = <<>> THEN <<"6", "0">> ELSE header)

requestTaskThrottlesEveryFailure(response) ==
    IF ~ok(response.status)
    THEN [kind |-> "throw", error |-> RateLimitError(retryAfterOf(response.retryAfter)),
          value |-> <<>>]
    ELSE [kind |-> "return", error |-> NoError, value |-> response.body]

\* request()'s task, from the response on: what it throws or returns
requestTask(response) ==
    IF response.status = 429
    THEN [kind |-> "throw", error |-> RateLimitError(retryAfterOf(response.retryAfter)),
          value |-> <<>>]
    ELSE IF ~ok(response.status)
    THEN [kind |-> "throw", error |-> Error(response.status), value |-> <<>>]
    ELSE [kind |-> "return", error |-> NoError, value |-> response.body]

\* The task returns response.json(); withRateLimit() and request() return it;
\* search() decodes the children and pushes them
FnReturns(response) ==
    /\ pc = "fn"
    /\ requestTask(response).kind = "return"
    /\ searchPosts' = searchPosts \o requestTask(response).value
    /\ subredditIdx' = subredditIdx + 1
    /\ pc' = "search"
    /\ hist' = [hist EXCEPT
                   !.fetched = Append(@, <<subredditIdx, requestTask(response).value>>),
                   !.listed = @ \o requestTask(response).value,
                   !.requests = Append(@, <<"end", keywordIdx, subredditIdx>>),
                   !.response = response]
    /\ UNCHANGED <<now, limiterVars, callerVars, collectVars, authVars, retryVars, thrown>>

\* The task throws a RateLimitError; withRateLimit() catches it and awaits
\* limiter.handleRateLimitResponse(error.retryAfter), up to its sleep
Throttled(error, response) ==
    /\ pc = "fn"
    /\ /\ lastError' = error
       /\ tokens' = 0
       /\ sleepMs' = throttleWaitMs(error.code)
       /\ pc' = "handleRateLimitResponse_sleep"
       /\ hist' = [hist EXCEPT !.failures = @ + 1,
                               !.response = response,
                               !.fnErrors = Append(@, error),
                               !.waitLog = Append(@, <<"throttle", throttleWaitMs(error.code)>>)]
    /\ UNCHANGED <<now, lastRefill, callerVars, collectVars, searchVars, authVars, attempt,
                   thrown>>

FnThrottled(response) ==
    /\ hist.failures < MaxFailures
    /\ requestTask(response).kind = "throw"
    /\ requestTask(response).error.kind = "RateLimitError"
    /\ Throttled(requestTask(response).error, response)

\* The task throws another error; withRateLimit() catches it: backoff and
\* retry while limiter.shouldRetry(attempt), else throw error to the handler
\* of the caller
\* The call options?.onRetry?.(attempt, lastError) stands between the
\* decision to retry and the backoff setTimeout: what the observer throws
\* leaves the catch block, and withRateLimit() with it.
Fails(error, handler, response) ==
    /\ pc = "fn"
    /\ lastError' = error
    /\ hist' = [hist EXCEPT
                   !.failures = @ + 1,
                   !.response = response,
                   !.exhausted = @ \/ ~shouldRetry(attempt),
                   !.fnErrors = Append(@, error),
                   !.observed = IF shouldRetry(attempt) /\ hist.onRetry # "none"
                                THEN Append(@, <<attempt, error>>)
                                ELSE @,
                   !.waitLog = IF shouldRetry(attempt) /\ hist.onRetry # "raises"
                               THEN Append(@, <<"backoff", getBackoffDelay(attempt)>>)
                               ELSE @]
    /\ IF shouldRetry(attempt) /\ hist.onRetry # "raises"
       THEN /\ sleepMs' = getBackoffDelay(attempt)
            /\ pc' = "backoff_sleep"
            /\ UNCHANGED thrown
       ELSE /\ thrown' = IF shouldRetry(attempt) THEN ObserverError ELSE error
            /\ pc' = handler
            /\ UNCHANGED sleepMs
    /\ UNCHANGED <<now, limiterVars, callerVars, collectVars, searchVars, authVars, attempt>>

\* request() does not catch what withRateLimit() throws; search() does
FnFails(response) ==
    /\ hist.failures < MaxFailures
    /\ requestTask(response).kind = "throw"
    /\ requestTask(response).error.kind # "RateLimitError"
    /\ Fails(requestTask(response).error, "catch", response)

ContinueStrict(handler) ==
    /\ attempt' = attempt + 1
    /\ IF attempt + 1 < maxRetries
       THEN /\ pc' = "withRateLimit"
            /\ UNCHANGED thrown
       ELSE /\ pc' = handler
            /\ thrown' = IF lastError # NoError THEN lastError ELSE Error(0)

ContinueOneMore(handler) ==
    /\ attempt' = attempt + 1
    /\ IF attempt + 1 <= maxRetries + 1
       THEN /\ pc' = "withRateLimit"
            /\ UNCHANGED thrown
       ELSE /\ pc' = handler
            /\ thrown' = IF lastError # NoError THEN lastError ELSE Error(0)

\* `continue`: attempt++, then the loop condition
\* attempt <= DEFAULT_RATE_LIMIT_CONFIG.maxRetries; after the loop,
\* throw lastError || new Error('Max retries exceeded')
Continue(handler) ==
    /\ attempt' = attempt + 1
    /\ IF attempt + 1 <= DEFAULT_RATE_LIMIT_CONFIG.maxRetries
       THEN /\ pc' = "withRateLimit"
            /\ UNCHANGED thrown
       ELSE /\ pc' = handler
            /\ thrown' = IF lastError # NoError THEN lastError ELSE Error(0)

\* handleRateLimitResponse() returns after its sleep; withRateLimit(): continue
ThrottleEnds(handler) ==
    /\ pc = "handleRateLimitResponse_sleep"
    /\ now' = now + sleepMs
    /\ sleepMs' = 0
    /\ Continue(handler)
    /\ hist' = [hist EXCEPT !.exhausted = @ \/ pc' = handler]
    /\ UNCHANGED <<limiterVars, callerVars, collectVars, searchVars, authVars, lastError>>

\* withRateLimit(): the backoff setTimeout fires; continue
BackoffEnds(handler) ==
    /\ pc = "backoff_sleep"
    /\ now' = now + sleepMs
    /\ sleepMs' = 0
    /\ Continue(handler)
    /\ hist' = [hist EXCEPT !.exhausted = @ \/ pc' = handler]
    /\ UNCHANGED <<limiterVars, callerVars, collectVars, searchVars, authVars, lastError>>

\* main(): runCollection() returned the leads; they are printed and the
\* process ends with status 0.  (The catch block of main(), process.exit(1),
\* is entered only when runCollection() throws.)
MainExit ==
    /\ pc = "returned"
    /\ pc' = "exit_0"
    /\ UNCHANGED <<now, limiterVars, callerVars, collectVars, searchVars, authVars,
                   retryVars, thrown, hist>>

ThrottleResume == ThrottleEnds("catch")
BackoffResume == BackoffEnds("catch")

Next ==
    \/ CollectSearch
    \/ CollectReturn
    \/ MainExit
    \/ SearchRequest
    \/ SearchReturn
    \/ SearchCatch
    \/ AuthenticateCached
    \/ AuthenticateExchange
    \/ \E e \in ExpiresInChoices : ExchangeOk(e)
    \/ \E error \in AuthFailures : ExchangeRejected(error)
    \/ WaitForToken
    \/ WaitForTokenResume
    \/ CallFn
    \/ \E response \in Responses(keywordIdx, subredditIdx) : FnReturns(response)
    \/ \E response \in Responses(keywordIdx, subredditIdx) : FnThrottled(response)
    \/ \E response \in Responses(keywordIdx, subredditIdx) : FnFails(response)
    \/ ThrottleResume
    \/ BackoffResume

Spec == Init /\ [][Next]_vars
\* ------------------------------- SpecRetry: one withRateLimit(limiter, fn)
\* A caller hands withRateLimit() the limiter and a task of its own.  The
\* limiter is new, or has just granted its burst.
InitRetry ==
    /\ now = 0
    /\ tokens \in {burstLimit * TokenUnit, 0}
    /\ lastRefill = 0
    /\ cpc = [p \in Callers |-> "idle"]
    /\ cwake = [p \in Callers |-> 0]
    /\ grantLog = <<>>
    /\ ClientConstructed("withRateLimit")

TaskReturnsAndContinues(value) ==
    /\ pc = "fn"
    /\ result' = value
    /\ pc' = "withRateLimit"
    /\ UNCHANGED <<now, limiterVars, callerVars, keywordIdx, collectPosts, leads, searchVars,
                   authVars, retryVars, thrown, hist>>

\* return await fn()
TaskReturns(value) ==
    /\ pc = "fn"
    /\ result' = value
    /\ pc' = "returned"
    /\ UNCHANGED <<now, limiterVars, callerVars, keywordIdx, collectPosts, leads, searchVars,
                   authVars, retryVars, thrown, hist>>

TaskThrottled(retryAfter) == Throttled(RateLimitError(retryAfter), NoResponse)
TaskFails(error) == Fails(error, "thrown", NoResponse)
TaskThrottleResume == ThrottleEnds("thrown")
TaskBackoffResume == BackoffEnds("thrown")

NextRetry ==
    \/ WaitForToken
    \/ WaitForTokenResume
    \/ CallFn
    \/ \E value \in TaskValues : TaskReturns(value)
    \/ \E retryAfter \in RetryAfterValues : TaskThrottled(retryAfter)
    \/ \E error \in TaskFailures : TaskFails(error)
    \/ TaskThrottleResume
    \/ TaskBackoffResume

SpecRetry == InitRetry /\ [][NextRetry]_vars
\* Each task invocation and each wait of withRateLimit() ends.
SpecRetryFair == SpecRetry /\ WF_vars(NextRetry)

\* ------------- SpecObserver: withRateLimit(limiter, fn, { onRetry })
\* As SpecRetry, the caller passing an observer that returns or one that
\* throws.
InitObserver ==
    /\ now = 0
    /\ tokens \in {burstLimit * TokenUnit, 0}
    /\ lastRefill = 0
    /\ cpc = [p \in Callers |-> "idle"]
    /\ cwake = [p \in Callers |-> 0]
    /\ grantLog = <<>>
    /\ \E observer \in Observers :
           Constructed("withRateLimit", [InitHist EXCEPT !.onRetry = observer])

SpecObserver == InitObserver /\ [][NextRetry]_vars

\* ------ SpecConfig: withRateLimit(new RateLimiter(config), fn)
\* As SpecRetry, the limiter constructed with a maxRetries of the caller's
\* choice.
InitConfig ==
    /\ now = 0
    /\ tokens = burstLimit * TokenUnit
    /\ lastRefill = 0
    /\ cpc = [p \in Callers |-> "idle"]
    /\ cwake = [p \in Callers |-> 0]
    /\ grantLog = <<>>
    /\ \E m \in 0 .. MaxConfiguredRetries :
           Constructed("withRateLimit",
                       [InitHist EXCEPT
                           !.config = [DEFAULT_RATE_LIMIT_CONFIG EXCEPT !.maxRetries = m]])

SpecConfig == InitConfig /\ [][NextRetry]_vars

\* ---------------- SpecBurst: one stream of requests on a new limiter
\* The requests of a run, one withRateLimit() call after the other as
\* collect() and search() issue them, every response a success that arrives
\* at once; grantLog holds the instant each request was sent.
InitBurst ==
    /\ now = 0
    /\ tokens = burstLimit * TokenUnit
    /\ lastRefill = 0
    /\ cpc = [p \in Callers |-> "idle"]
    /\ cwake = [p \in Callers |-> 0]
    /\ grantLog = <<>>
    /\ ClientConstructed("withRateLimit")

\* return await fn(); the loops of search() and collect() issue the next
\* request(): withRateLimit() is entered again
NextRequest ==
    /\ pc = "fn"
    /\ Len(grantLog) < MaxRequests
    /\ grantLog' = Append(grantLog, now)
    /\ EnterWithRateLimit
    /\ hist' = NewCall(hist)
    /\ UNCHANGED <<now, limiterVars, cpc, cwake, collectVars, searchVars, authVars, thrown>>

NextBurst ==
    \/ WaitForToken
    \/ WaitForTokenResume
    \/ CallFn
    \/ NextRequest

SpecBurst == InitBurst /\ [][NextBurst]_vars

\* ------------- SpecStatus: one caller of a RateLimiter that is observed
\* One caller calls waitForToken(), handleRateLimitResponse() and getStatus()
\* one after the other, letting time pass in between; hist.unobserved makes
\* the same calls less the getStatus() ones, at the same instants.
InitStatus ==
    /\ now = 0
    /\ tokens = burstLimit * TokenUnit
    /\ lastRefill = 0
    /\ cpc = [p \in Callers |-> "idle"]
    /\ cwake = [p \in Callers |-> 0]
    /\ grantLog = <<>>
    /\ ClientConstructed("idle")

statusFrame == <<callerVars, keywordIdx, collectPosts, leads, searchVars, authVars, attempt,
                 lastError, thrown>>

\* Time passes between two calls.
TimePasses ==
    /\ pc = "idle"
    /\ now < MaxTicks * TickMs
    /\ now' = now + TickMs
    /\ UNCHANGED <<limiterVars, pc, sleepMs, result, hist, statusFrame>>

\* waitForToken() up to its return or its await this.sleep(msToWait)
StatusWaitForToken ==
    /\ pc = "idle"
    /\ now < MaxTicks * TickMs
    /\ LET t == refillTokens(tokens, lastRefill, now)
           u == refillTokens(hist.unobserved.tokens, hist.unobserved.lastRefill, now)
       IN  /\ lastRefill' = now
           /\ tokens' = IF t >= TokenUnit THEN t - TokenUnit ELSE t
           /\ pc' = IF t >= TokenUnit THEN "idle" ELSE "waitForToken_sleep"
           /\ sleepMs' = IF t >= TokenUnit THEN 0 ELSE msToWait(t)
           /\ hist' = [hist EXCEPT
                          !.unobserved = [tokens |-> IF u >= TokenUnit THEN u - TokenUnit ELSE u,
                                          lastRefill |-> now],
                          !.lastWait = [observed |-> IF t >= TokenUnit THEN 0 ELSE msToWait(t),
                                        unobserved |-> IF u >= TokenUnit THEN 0
                                                       ELSE msToWait(u)]]
    /\ UNCHANGED <<now, result, statusFrame>>

\* waitForToken() after its sleep: refillTokens(); this.tokens -= 1
StatusWaitForTokenResume ==
    /\ pc = "waitForToken_sleep"
    /\ now' = now + sleepMs
    /\ tokens' = refillTokens(tokens, lastRefill, now') - TokenUnit
    /\ lastRefill' = now'
    /\ sleepMs' = 0
    /\ pc' = "idle"
    /\ hist' = [hist EXCEPT
                   !.unobserved =
                       IF hist.lastWait.unobserved > 0
                       THEN [tokens |-> refillTokens(@.tokens, @.lastRefill, now') - TokenUnit,
                             lastRefill |-> now']
                       ELSE @]
    /\ UNCHANGED <<result, statusFrame>>

\* handleRateLimitResponse(retryAfterSeconds) up to its await this.sleep(waitMs)
StatusHandleRateLimitResponse(r) ==
    /\ pc = "idle"
    /\ now < MaxTicks * TickMs
    /\ hist.failures < MaxFailures
    /\ tokens' = 0
    /\ sleepMs' = throttleWaitMs(r)
    /\ pc' = "handleRateLimitResponse_sleep"
    /\ hist' = [hist EXCEPT !.failures = @ + 1, !.unobserved.tokens = 0]
    /\ UNCHANGED <<now, lastRefill, result, statusFrame>>

StatusHandleRateLimitResponseResume ==
    /\ pc = "handleRateLimitResponse_sleep"
    /\ now' = now + sleepMs
    /\ sleepMs' = 0
    /\ pc' = "idle"
    /\ UNCHANGED <<limiterVars, result, hist, statusFrame>>

\* getStatus(): refillTokens(), then { tokens: Math.floor(this.tokens), ... }
StatusGetStatus ==
    /\ pc = "idle"
    /\ tokens' = refillTokens(tokens, lastRefill, now)
    /\ lastRefill' = now
    /\ result' = [tokens |-> tokens' \div TokenUnit,
                  requestsPerMinute |-> hist.config.requestsPerMinute]
    /\ UNCHANGED <<now, pc, sleepMs, hist, statusFrame>>

NextStatus ==
    \/ TimePasses
    \/ StatusWaitForToken
    \/ StatusWaitForTokenResume
    \/ \E r \in RetryAfterChoices : StatusHandleRateLimitResponse(r)
    \/ StatusHandleRateLimitResponseResume
    \/ StatusGetStatus

SpecStatus == InitStatus /\ [][NextStatus]_vars

\* ------------- SpecAuth: request() calls in flight on one RedditClient
\* Each caller calls request() once; the calls interleave at their awaits.
InitAuth ==
    /\ now = 0
    /\ tokens = burstLimit * TokenUnit
    /\ lastRefill = 0
    /\ cpc = [p \in Callers |-> "idle"]
    /\ cwake = [p \in Callers |-> 0]
    /\ grantLog = <<>>
    /\ ClientConstructed("idle")

AuthRequestAssumesToken(p) ==
    /\ cpc[p] = "idle"
    /\ cpc' = [cpc EXCEPT ![p] = "withRateLimit"]
    /\ UNCHANGED <<now, limiterVars, cwake, grantLog, authVars, streamVars, hist>>

\* request(): await this.authenticate(), up to its return or its await fetch
AuthRequest(p) ==
    /\ cpc[p] = "idle"
    /\ IF tokenValid
       THEN /\ cpc' = [cpc EXCEPT ![p] = "withRateLimit"]
            /\ UNCHANGED hist
       ELSE /\ cpc' = [cpc EXCEPT ![p] = "exchange"]
            /\ hist' = [hist EXCEPT !.exchanges = @ + 1]
    /\ UNCHANGED <<now, limiterVars, cwake, grantLog, authVars, streamVars>>

\* authenticate(): the token response is stored; the Auth API issues a new
\* token with every response
AuthExchangeOk(p, expires_in) ==
    /\ cpc[p] = "exchange"
    /\ accessToken' = hist.tokenResponse.access_token + 1
    /\ tokenExpiry' = now + (expires_in - SafetyMarginSeconds) * 1000
    /\ cpc' = [cpc EXCEPT ![p] = "withRateLimit"]
    /\ hist' = [hist EXCEPT
                   !.tokenResponse = [access_token |-> hist.tokenResponse.access_token + 1,
                                      expires_in |-> expires_in,
                                      receivedAt |-> now]]
    /\ UNCHANGED <<now, limiterVars, cwake, grantLog, streamVars>>

\* authenticate(): if (!response.ok) throw; request() rejects
AuthExchangeRejected(p) ==
    /\ cpc[p] = "exchange"
    /\ hist.failures < MaxFailures
    /\ cpc' = [cpc EXCEPT ![p] = "done"]
    /\ hist' = [hist EXCEPT !.authRejected = TRUE, !.failures = @ + 1]
    /\ UNCHANGED <<now, limiterVars, cwake, grantLog, authVars, streamVars>>

\* request(): withRateLimit() takes a token (the burst covers the callers)
\* and the task sends the GET with Authorization: Bearer ${this.accessToken}
AuthFetch(p) ==
    /\ cpc[p] = "withRateLimit"
    /\ refillTokens(tokens, lastRefill, now) >= TokenUnit
    /\ tokens' = refillTokens(tokens, lastRefill, now) - TokenUnit
    /\ lastRefill' = now
    /\ cpc' = [cpc EXCEPT ![p] = "done"]
    /\ hist' = [hist EXCEPT !.carried = Append(@, accessToken)]
    /\ UNCHANGED <<now, cwake, grantLog, authVars, streamVars>>

NextAuth ==
    \/ Tick
    \/ \E p \in Callers : AuthRequest(p)
    \/ \E p \in Callers, e \in ExpiresInChoices : AuthExchangeOk(p, e)
    \/ \E p \in Callers : AuthExchangeRejected(p)
    \/ \E p \in Callers : AuthFetch(p)

SpecAuth == InitAuth /\ [][NextAuth]_vars

\* ------------------------------ SpecUnit: the pure methods, called directly
\* A caller applies deduplicatePosts, transformToLead, hasGenuineIntent and
\* getBackoffDelay to inputs of its own; result records the call.
NoCall == [fn |-> "none", arg |-> <<>>, value |-> <<>>]

UnitTitles ==
    {<<"L", "o", "o", "k", "i", "n", "g", " ", "f", "o", "r", " ", "a", " ", "s", "c", "r",
         "e", "e", "n", "s", "h", "o", "t", " ", "A", "P", "I", " ", "f", "o", "r", " ",
         "m", "y", " ", "S", "a", "a", "S">>,
     <<"n", "i", "c", "e", " ", "t", "o", "o", "l", "!">>,
     <<" ", " ", "h", "o", "w", " ", "d", "o", " ", "I", " ", "c", "a", "p", "t", "u", "r",
         "e", " ", "a", " ", "f", "u", "l", "l", " ", "p", "a", "g", "e", " ", "s", "c",
         "r", "e", "e", "n", "s", "h", "o", "t">>,
     <<"H", "o", "w", " ", "d", "o", " ", "I", " ", "c", "a", "p", "t", "u", "r", "e", " ",
         "a", " ", "f", "u", "l", "l", " ", "p", "a", "g", "e", " ", "s", "c", "r", "e",
         "e", "n", "s", "h", "o", "t">>,
     <<>>,
     <<"W", "h", "i", "c", "h", " ", "p", "d", "f", " ", "a", "p", "i", "?">>,
     <<"C", "o", "m", "p", "a", "r", "i", "n", "g", " ", "a", " ", "S", "c", "r", "e", "e",
         "n", "s", "h", "o", "t", " ", "A", "P", "I", " ", "w", "i", "t", "h", " ", "a",
         " ", "P", "D", "F", " ", "A", "P", "I">>,
     <<"M", "y", " ", "t", "e", "a", "m", " ", "a", "n", "d", " ", "I", " ", "r", "e", "a",
         "l", "l", "y", " ", "b", "a", "d", "l", "y", " ", "n", "e", "e", "d">>}

UnitContents ==
    {<<>>,
     <<"a", " ", "t", "o", "o", "l">>,
     <<"w", "h", "a", "t", " ", "i", "s", " ", "t", "h", "e", " ", "m", "o", "s", "t", " ",
         "r", "e", "l", "i", "a", "b", "l", "e", " ", "h", "o", "s", "t", "e", "d", " ",
         "s", "e", "r", "v", "i", "c", "e", " ", "t", "h", "a", "t", " ", "r", "e", "n",
         "d", "e", "r", "s", " ", "i", "n", "v", "o", "i", "c", "e", "s">>,
     <<"I", "s", " ", "t", "h", "e", "r", "e", " ", "a", "n", "y", " ", "h", "o", "s", "t",
         "e", "d", " ", "s", "e", "r", "v", "i", "c", "e", " ", "t", "h", "a", "t", " ",
         "r", "e", "n", "d", "e", "r", "s", " ", "i", "n", "v", "o", "i", "c", "e", "s",
         " ", "w", "e", "l", "l", "?">>,
     <<"A", "n", "y", " ", "p", "d", "f", " ", "A", "P", "I", " ", "w", "i", "l", "l", " ",
         "d", "o">>}

UnitAuthors == {"u1", "u2"}

\* process.env: a variable is unset, or set to a string (which may be empty)
Unset == [set |-> FALSE, value |-> ""]
EnvValues == {Unset, [set |-> TRUE, value |-> ""], [set |-> TRUE, value |-> "x"]}
UnitEnvs ==
    [{"REDDIT_CLIENT_ID", "REDDIT_CLIENT_SECRET", "REDDIT_USER_AGENT"} -> EnvValues]

\* !value of a string | undefined
Falsy(v) == ~v.set \/ v.value = ""

DefaultUserAgent == "LeadOwl/1.0.0 (https://leadowl.techyowls.io)"
NoClient == [clientId |-> "", clientSecret |-> "", userAgent |-> ""]
MissingCredentials ==
    [kind |-> "Error",
     message |-> "Missing REDDIT_CLIENT_ID or REDDIT_CLIENT_SECRET environment variables"]

\* createRedditClient(): what it throws, or the config of the client it returns
createRedditClient(env) ==
    LET clientId == env["REDDIT_CLIENT_ID"]
        clientSecret == env["REDDIT_CLIENT_SECRET"]
        userAgent == IF Falsy(env["REDDIT_USER_AGENT"])
                     THEN DefaultUserAgent
                     ELSE env["REDDIT_USER_AGENT"].value
    IN  IF Falsy(clientId) \/ Falsy(clientSecret)
        THEN [kind |-> "throw", error |-> MissingCredentials, client |-> NoClient]
        ELSE [kind |-> "return", error |-> NoError,
              client |-> [clientId |-> clientId.value, clientSecret |-> clientSecret.value,
                          userAgent |-> userAgent]]

\* RedditPost values
UnitPosts ==
    {[id |-> "p", subreddit |-> "webdev", title |-> title, content |-> content,
      author |-> author, url |-> "https://reddit.com/r/webdev/p", createdUtc |-> 100,
      score |-> 1, numComments |-> 0] :
        title \in UnitTitles, content \in UnitContents, author \in UnitAuthors}

\* Sequences of listed children, up to MaxPosts long
RECURSIVE ChildSeqs(_)
ChildSeqs(n) ==
    IF n = 0 THEN {<<>>}
    ELSE ChildSeqs(n - 1)
         \cup {Append(children, c) : children \in {x \in ChildSeqs(n - 1) : Len(x) = n - 1},
                                     c \in 1 .. Len(RawChildren)}

\* RateLimitConfig values
UnitConfigs ==
    {[DEFAULT_RATE_LIMIT_CONFIG EXCEPT !.backoffMultiplier = m, !.maxBackoffMs = cap] :
        m \in {0, 1, 2, 3}, cap \in {500, 1000, 4000, maxBackoffMs}}

InitUnit ==
    /\ now = 0
    /\ tokens = burstLimit * TokenUnit
    /\ lastRefill = 0
    /\ cpc = [p \in Callers |-> "idle"]
    /\ cwake = [p \in Callers |-> 0]
    /\ grantLog = <<>>
    /\ pc = "unit"
    /\ keywordIdx = 1
    /\ collectPosts = <<>>
    /\ subredditIdx = 1
    /\ searchPosts = <<>>
    /\ accessToken = NoToken
    /\ tokenExpiry = 0
    /\ attempt = 0
    /\ lastError = NoError
    /\ sleepMs = 0
    /\ thrown = NoError
    /\ leads = <<>>
    /\ result = NoCall
    /\ hist = InitHist

\* What a call of a pure method leaves alone: everything.
unitFrame == <<now, limiterVars, callerVars, keywordIdx, collectPosts, leads,
               searchVars, authVars, retryVars, thrown, hist>>

UnitDeduplicatePosts(children) ==
    /\ pc = "unit"
    /\ pc' = "unit_returned"
    /\ result' = [fn |-> "deduplicatePosts", arg |-> children,
                  value |-> deduplicatePosts(Decoded(children))]
    /\ UNCHANGED unitFrame

UnitTransformToLead(post) ==
    /\ pc = "unit"
    /\ pc' = "unit_returned"
    /\ result' = [fn |-> "transformToLead", arg |-> post,
                  value |-> transformToLead(post, now)]
    /\ UNCHANGED unitFrame

UnitHasGenuineIntent(lead) ==
    /\ pc = "unit"
    /\ pc' = "unit_returned"
    /\ result' = [fn |-> "hasGenuineIntent", arg |-> lead, value |-> hasGenuineIntent(lead)]
    /\ UNCHANGED unitFrame

\* getBackoffDelay(0), ..., getBackoffDelay(MaxAttempt)
UnitGetBackoffDelay(config) ==
    /\ pc = "unit"
    /\ pc' = "unit_returned"
    /\ result' = [fn |-> "getBackoffDelay", arg |-> config,
                  value |-> [i \in 1 .. MaxAttempt + 1 |-> getBackoffDelayOf(config, i - 1)]]
    /\ UNCHANGED unitFrame

UnitCreateRedditClient(env) ==
    /\ pc = "unit"
    /\ pc' = "unit_returned"
    /\ result' = [fn |-> "createRedditClient", arg |-> env, value |-> createRedditClient(env)]
    /\ UNCHANGED unitFrame

NextUnit ==
    \/ \E children \in ChildSeqs(MaxPosts) : UnitDeduplicatePosts(children)
    \/ \E post \in UnitPosts : UnitTransformToLead(post)
    \/ \E post \in UnitPosts : UnitHasGenuineIntent(transformToLead(post, now))
    \/ \E config \in UnitConfigs : UnitGetBackoffDelay(config)
    \/ \E env \in UnitEnvs : UnitCreateRedditClient(env)

SpecUnit == InitUnit /\ [][NextUnit]_vars

Last(seq) == seq[Len(seq)]
Throttles == {i \in 1 .. Len(hist.fnErrors) : hist.fnErrors[i].kind = "RateLimitError"}
BackoffWaits == SelectSeq(hist.waitLog, LAMBDA w : w[1] = "backoff")

\* C3, as claimed: every ThrottledFailure raised by the task is followed,
\* after the handleRateLimitResponse wait, by another run of the loop body
\* (token acquisition and task invocation), whatever the attempt number.
ThrottledAlwaysRetried ==
    [][pc = "handleRateLimitResponse_sleep" => pc' = "withRateLimit"]_vars

\* C3, amended: a ThrottledFailure raised on attempt a is followed, after the
\* handleRateLimitResponse wait, by another run of the loop body exactly when
\* a < maxRetries; on the last attempt the wait is followed by raising the
\* RateLimitError.  Throttled failures advance the same attempt counter as
\* transient ones: attempt is always the number of failures so far.
ThrottledRetriedWithinAttempts ==
    [][/\ pc = "handleRateLimitResponse_sleep" =>
            IF attempt < maxRetries
            THEN pc' = "withRateLimit" /\ attempt' = attempt + 1
            ELSE pc' = "thrown" /\ thrown' = Last(hist.fnErrors)
       /\ pc' \in {"withRateLimit", "call_fn", "fn"} => attempt' = Len(hist.fnErrors')
      ]_vars

\* C3 witness: a first throttled failure was retried, and a throttled failure
\* on the last attempt was raised after its wait.
ThrottledRetriedThenRaised ==
    /\ pc = "thrown"
    /\ hist.invocations = maxRetries + 1
    /\ hist.fnErrors[1].kind = "RateLimitError"
    /\ thrown.kind = "RateLimitError"
    /\ Len(SelectSeq(hist.waitLog, LAMBDA w : w[1] = "throttle")) = Cardinality(Throttles)

\* C4: with the default configuration and a task that fails only with
\* transient errors, the task is invoked exactly maxRetries + 1 times, the
\* wait before retry k is getBackoffDelay(k), and the error raised is the
\* error of the last invocation.
TransientFailuresExhaustRetries ==
    (pc = "thrown" /\ Throttles = {}) =>
        /\ hist.invocations = maxRetries + 1
        /\ Len(hist.fnErrors) = maxRetries + 1
        /\ BackoffWaits = [k \in 1 .. maxRetries |-> <<"backoff", getBackoffDelay(k - 1)>>]
        /\ BackoffWaits = << <<"backoff", 1000>>, <<"backoff", 2000>>, <<"backoff", 4000>> >>
        /\ thrown = Last(hist.fnErrors)

\* C4 witness: four transient failures, the first and the last different.
TransientFailuresRaised ==
    /\ pc = "thrown"
    /\ Throttles = {}
    /\ hist.invocations = 4
    /\ hist.fnErrors[1] # hist.fnErrors[4]
    /\ thrown = hist.fnErrors[4]

\* C5: every call of withRateLimit ends (it returns or raises), and it never
\* makes more than maxRetries + 1 = 4 task invocations, whatever mix of
\* throttled and transient failures the task produces.
WithRateLimitTerminates ==
    /\ <>(pc \in {"returned", "thrown"})
    /\ [](hist.invocations <= maxRetries + 1 /\ hist.invocations <= 4)

\* C5 witness: a call that ended after four invocations that failed with a mix
\* of throttled and transient errors.
MixedFailuresEnded ==
    /\ pc = "thrown"
    /\ hist.invocations = 4
    /\ Throttles # {}
    /\ Cardinality(Throttles) < Len(hist.fnErrors)

\* C6: every task invocation is immediately preceded by its own completed
\* waitForToken: acquisitions and invocations advance in lockstep, the
\* acquisition first.
EveryInvocationAcquires ==
    /\ hist.acquisitions >= hist.invocations
    /\ hist.acquisitions = hist.invocations + (IF pc = "call_fn" THEN 1 ELSE 0)
    /\ pc = "fn" => hist.invocations = Len(hist.fnErrors) + 1

\* C6 witness: a retry is running on a token of its own, acquired after a sleep.
RetryAcquiredItsToken ==
    /\ pc = "fn"
    /\ hist.invocations = 3
    /\ hist.acquisitions = 3
    /\ \E i \in 1 .. Len(hist.waitLog) : hist.waitLog[i][1] = "token"
\* -------------------------------------------------- claims about the run
\* The indices of the first occurrence of each id
FirstOccurrences(posts) ==
    {i \in 1 .. Len(posts) : \A j \in 1 .. i - 1 : posts[j].id # posts[i].id}

\* The k-th smallest element of a set of numbers
Nth(S, k) == CHOOSE i \in S : Cardinality({j \in S : j < i}) = k - 1

Ids(posts) == [i \in 1 .. Len(posts) |-> posts[i].id]

RECURSIVE ConcatListings(_)
ConcatListings(fetched) ==
    IF fetched = <<>> THEN <<>>
    ELSE Decoded(Head(fetched)[2]) \o ConcatListings(Tail(fetched))

\* C7: a request() issued while now < tokenExpiry of the cached token performs
\* no credential exchange: whatever number of requests was issued inside the
\* window, until it closes the exchange that obtained the token is the only
\* one.
OneExchangePerValidityWindow ==
    (accessToken # NoToken /\ now < tokenExpiry /\ hist.windowRequests >= 1) =>
        (hist.tokenExchanges = 1 /\ pc # "exchange")

\* C7 witness: two requests were issued inside one token's validity window,
\* the second after time had passed, and one exchange was performed.
TwoRequestsOneExchange ==
    /\ now < tokenExpiry
    /\ hist.windowRequests >= 2
    /\ hist.tokenExchanges = 1
    /\ hist.exchanges = 1
    /\ now > hist.tokenResponse.receivedAt
    /\ pc = "fn"

\* C8: authenticate() is a no-op iff a token is held and now is before the
\* token's actual expiry less 300 s; otherwise it sends a credential exchange
\* and, on success, holds the returned token with
\* tokenExpiry = now + (expires_in - 300) s.  Once a token is held, one is
\* held for ever.
AuthenticateStateMachine ==
    [][/\ pc = "authenticate" =>
            IF /\ accessToken # NoToken
               /\ now < hist.tokenResponse.receivedAt
                          + hist.tokenResponse.expires_in * 1000 - 300 * 1000
            THEN /\ pc' = "withRateLimit"
                 /\ UNCHANGED <<accessToken, tokenExpiry>>
                 /\ hist'.exchanges = hist.exchanges
            ELSE /\ pc' = "exchange"
                 /\ hist'.exchanges = hist.exchanges + 1
       /\ (pc = "exchange" /\ pc' = "withRateLimit") =>
            /\ accessToken' = hist'.tokenResponse.access_token
            /\ accessToken' # NoToken
            /\ tokenExpiry' = now' + (hist'.tokenResponse.expires_in - 300) * 1000
       /\ pc # "exchange" => UNCHANGED <<accessToken, tokenExpiry>>
       /\ accessToken # NoToken => accessToken' # NoToken
      ]_vars

\* C8 witness: the first token ran out and a second exchange replaced it.
TokenRefreshed ==
    /\ pc = "withRateLimit"
    /\ attempt = 0
    /\ hist.exchanges = 2
    /\ accessToken = 2
    /\ hist.tokenResponse.receivedAt > 0

\* C9: search() never raises; it requests every subreddit of the list in
\* order, whatever happened to the earlier ones, and returns the decoded
\* posts of exactly the successful requests, in list order.
SearchReturnsWhatSucceeded ==
    /\ pc # "thrown"
    /\ thrown # NoError => pc = "catch"
    /\ (pc = "search" /\ subredditIdx > Len(MONITORED_SUBREDDITS)) =>
          /\ hist.requested = [i \in 1 .. Len(MONITORED_SUBREDDITS) |-> i]
          /\ Decoded(searchPosts) = ConcatListings(hist.fetched)
          /\ \A i, j \in 1 .. Len(hist.fetched) :
                i < j => hist.fetched[i][1] < hist.fetched[j][1]

\* C9 witness: the first subreddit's request failed, the second was still
\* made and its posts are the result.
SecondSubredditSurvivesFirst ==
    /\ pc = "search"
    /\ subredditIdx > Len(MONITORED_SUBREDDITS)
    /\ Len(hist.fetched) = 1
    /\ hist.fetched[1][1] = 2
    /\ searchPosts # <<>>
    /\ ~hist.authRejected

\* C10: after a rejected credential exchange collect() does not return a lead
\* list (the error reaches its caller), and no further search request is sent.
RejectedExchangeFailsRun ==
    hist.authRejected => (pc # "returned" /\ ~hist.sentAfterReject)

\* C11: when a request of the run ended with its retry budget exhausted,
\* collect() does not return normally and main() does not exit with status 0.
ExhaustedBudgetFailsRun ==
    hist.exhausted => pc \notin {"returned", "exit_0"}

\* ------------------------------------------- claims about withRateLimit
\* The waits of the call from its first throttle wait on.
WaitsFromFirstThrottle ==
    LET w == hist.waitLog
        first == CHOOSE i \in 1 .. Len(w) + 1 :
                     /\ i <= Len(w) => w[i][1] = "throttle"
                     /\ \A j \in 1 .. i - 1 : w[j][1] # "throttle"
    IN  SubSeq(w, first, Len(w))

ChildLead ==
    [c \in 1 .. Len(RawChildren) |-> transformToLead(transformPost(RawChildren[c]), 0)]

ChildHasIntent == [c \in 1 .. Len(RawChildren) |-> hasGenuineIntent(ChildLead[c])]

\* C16: collect() calls search() once per keyword of the taxonomy, in order,
\* each with the whole subreddit list, and returns exactly the leads of the
\* first occurrences (by post id, in fetch order) of the fetched posts that
\* satisfy hasGenuineIntent, with pairwise distinct lead ids.  When the
\* backend lists two posts for "screenshot api" in webdev, one with intent and
\* one without, and nothing else, it returns exactly 1 lead, whose
\* matchedKeywords contains "screenshot api".
CollectReturnsIntendedFirstOccurrences ==
    pc \in {"returned", "exit_0"} =>
        LET posts == Decoded(hist.listed)
            kept == {i \in FirstOccurrences(posts) : ChildHasIntent[hist.listed[i]]}
        IN  /\ hist.searches =
                   [k \in 1 .. Len(AllKeywords) |->
                       <<k, [i \in 1 .. Len(MONITORED_SUBREDDITS) |-> i]>>]
            /\ Len(leads) = Cardinality(kept)
            /\ \A k \in 1 .. Len(leads) :
                   leads[k] = [ChildLead[hist.listed[Nth(kept, k)]] EXCEPT !.collectedAt = now]
            /\ \A i, j \in 1 .. Len(leads) : i # j => leads[i].id # leads[j].id
            /\ hist.listed = <<1, 2>> =>
                  /\ Len(leads) = 1
                  /\ \E i \in 1 .. Len(leads[1].matchedKeywords) :
                         leads[1].matchedKeywords[i] = AllKeywords[1]

\* C16 witness: the backend listed the two posts for "screenshot api" in
\* webdev and nothing else (the other requests failed or listed nothing), and
\* collect() returned the one lead.
CollectedTheOneLead ==
    /\ pc = "returned"
    /\ hist.listed = <<1, 2>>
    /\ Len(leads) = 1
    /\ leads[1].sourceId = "a"
    /\ leads[1].matchedKeywords = <<AllKeywords[1]>>

\* C13: handleRateLimitResponse(retryAfterSeconds) sets the token count to 0
\* and suspends the caller for retryAfterSeconds seconds whenever a value is
\* given, the value 0 included, and for maxBackoffMs only when none is given.
ThrottleWaitIsRetryAfter ==
    pc = "handleRateLimitResponse_sleep" =>
        /\ tokens = 0
        /\ sleepMs = IF lastError.code # NoValue
                     THEN lastError.code * 1000
                     ELSE maxBackoffMs

DeduplicateKeepsFirstOccurrences ==
    result.fn = "deduplicatePosts" =>
        LET posts == Decoded(result.arg)
            out == result.value
            first == FirstOccurrences(posts)
        IN  /\ \A i, j \in 1 .. Len(out) : i # j => out[i].id # out[j].id
            /\ {out[i].id : i \in 1 .. Len(out)} = {posts[i].id : i \in 1 .. Len(posts)}
            /\ Len(out) = Cardinality(first)
            /\ \A k \in 1 .. Len(out) : out[k] = posts[Nth(first, k)]
            /\ deduplicatePosts(out) = out
            /\ Ids(posts) = <<"a", "b", "a", "c">> => Ids(out) = <<"a", "b", "c">>

\* C15 witness: ids [a, b, a, c], the two posts of id a differing, gave
\* [a, b, c] with the first of them.
DeduplicatedABAC ==
    /\ result.fn = "deduplicatePosts"
    /\ Ids(Decoded(result.arg)) = <<"a", "b", "a", "c">>
    /\ Decoded(result.arg)[1] # Decoded(result.arg)[3]
    /\ Ids(result.value) = <<"a", "b", "c">>
    /\ result.value[1] = Decoded(result.arg)[1]

\* The question words of looksLikeQuestion
QuestionWords ==
    {<<"h", "o", "w">>, <<"w", "h", "a", "t">>, <<"w", "h", "i", "c", "h">>, <<"a", "n", "y">>}

\* The text less its leading white space
TrimStart(text) == SubSeq(text, SkipBlanks(text, 1), Len(text))

ContainsIntentPhrase(text) ==
    \E i \in 1 .. Len(INTENT_KEYWORDS) : includes(toLowerCase(text), INTENT_KEYWORDS[i])

StartsWithQuestionWord(text) ==
    \E word \in QuestionWords : startsWith(toLowerCase(text), word)

HasSubstance(lead) == Len(lead.content) > 50 \/ Len(lead.title) > 30

\* C17, as claimed: hasGenuineIntent(lead) = (hasIntentKeyword(text) OR
\* looksLikeQuestion(text)) AND hasSubstance(lead), where looksLikeQuestion
\* holds when the text contains '?' or, after trimming leading white space,
\* starts with how/what/which/any in any case; the result depends on the
\* title and the content only.
GenuineIntentTrimsText ==
    result.fn = "hasGenuineIntent" =>
        LET lead == result.arg
            text == Spaced(lead.title, lead.content)
        IN  result.value =
                (/\ \/ ContainsIntentPhrase(text)
                    \/ includes(text, <<"?">>)
                    \/ StartsWithQuestionWord(TrimStart(text))
                 /\ HasSubstance(lead))

\* C17, amended: the text is the title, one space and the content, and
\* looksLikeQuestion holds when the text contains '?' or the text as it is,
\* leading white space included, starts with how/what/which/any in any case.
GenuineIntentOfUntrimmedText ==
    result.fn = "hasGenuineIntent" =>
        LET lead == result.arg
            text == lead.title \o <<" ">> \o lead.content
        IN  result.value =
                (/\ \/ ContainsIntentPhrase(text)
                    \/ includes(text, <<"?">>)
                    \/ StartsWithQuestionWord(text)
                 /\ HasSubstance(lead))

\* C17 witness: a long title that starts with "how" after two blanks, without
\* '?' or intent phrase, was rejected.
IndentedQuestionRejected ==
    /\ result.fn = "hasGenuineIntent"
    /\ Len(result.arg.title) > 30
    /\ result.arg.title[1] = " "
    /\ StartsWithQuestionWord(TrimStart(result.arg.title))
    /\ result.arg.content = <<>>
    /\ result.value = FALSE

\* C18: for every lead made by transformToLead and every keyword k of the
\* whole taxonomy, k is in matchedKeywords iff the lowercased title + ' ' +
\* content contains the lowercased k; matchedKeywords has no duplicates.
MatchedKeywordsAreTaxonomyMatches ==
    result.fn = "transformToLead" =>
        LET post == result.arg
            matched == result.value.matchedKeywords
            text == toLowerCase(post.title \o <<" ">> \o post.content)
        IN  /\ \A p \in 1 .. Len(PRODUCT_KEYWORDS) :
                   \A k \in 1 .. Len(PRODUCT_KEYWORDS[p].keywords) :
                       LET keyword == PRODUCT_KEYWORDS[p].keywords[k] IN
                       (\E i \in 1 .. Len(matched) : matched[i] = keyword)
                           <=> includes(text, toLowerCase(keyword))
            /\ \A i, j \in 1 .. Len(matched) : i # j => matched[i] # matched[j]

\* C18 witness: a lead whose title names, in capitals, a keyword of each of
\* two products has both.
MatchedTwoProducts ==
    /\ result.fn = "transformToLead"
    /\ Len(result.value.matchedKeywords) = 2
    /\ result.value.matchedKeywords[1] = PRODUCT_KEYWORDS[1].keywords[1]
    /\ result.value.matchedKeywords[2] = PRODUCT_KEYWORDS[2].keywords[1]
    /\ ~includes(result.arg.title, PRODUCT_KEYWORDS[1].keywords[1])

\* C19, as claimed: for every configuration and every n >= 0,
\* getBackoffDelay(n) = min(baseDelay * backoffMultiplier^n, maxBackoffMs); it
\* is non-decreasing in n, never exceeds maxBackoffMs, and getBackoffDelay(0)
\* is baseDelay (1000 ms).
BackoffDelayEveryConfig ==
    result.fn = "getBackoffDelay" =>
        LET config == result.arg
            delay == result.value
        IN  /\ delay[1] = Min(baseDelay, config.maxBackoffMs)
            /\ \A i \in 1 .. MaxAttempt :
                   delay[i + 1] = Min(delay[i] * config.backoffMultiplier, config.maxBackoffMs)
            /\ \A i \in 1 .. MaxAttempt + 1 : delay[i] <= config.maxBackoffMs
            /\ \A i \in 1 .. MaxAttempt : delay[i] <= delay[i + 1]
            /\ delay[1] = baseDelay
            /\ delay[1] = 1000

\* C19, amended: the formula and the cap hold for every configuration;
\* getBackoffDelay is non-decreasing in n when backoffMultiplier >= 1, and
\* getBackoffDelay(0) is baseDelay (1000 ms) when maxBackoffMs >= baseDelay.
BackoffDelayOfConfig ==
    result.fn = "getBackoffDelay" =>
        LET config == result.arg
            delay == result.value
        IN  /\ delay[1] = Min(baseDelay, config.maxBackoffMs)
            /\ \A i \in 1 .. MaxAttempt :
                   delay[i + 1] = Min(delay[i] * config.backoffMultiplier, config.maxBackoffMs)
            /\ \A i \in 1 .. MaxAttempt + 1 : delay[i] <= config.maxBackoffMs
            /\ config.backoffMultiplier >= 1 =>
                   \A i \in 1 .. MaxAttempt : delay[i] <= delay[i + 1]
            /\ config.maxBackoffMs >= baseDelay => (delay[1] = baseDelay /\ delay[1] = 1000)

\* C19 witness: with multiplier 2 and a cap of 4 s the delays double from
\* 1 s and stay at the cap.
BackoffDelayReachedCap ==
    /\ result.fn = "getBackoffDelay"
    /\ result.arg.backoffMultiplier = 2
    /\ SubSeq(result.value, 1, 4) = <<1000, 2000, 4000, 4000>>

\* C20: whenever the token count after the time-proportional refill is >= 1,
\* waitForToken returns without suspending and takes exactly 1 token; in
\* particular, from zero tokens, once exactly 60 / requestsPerMinute seconds
\* have elapsed an acquisition succeeds at once.
RefilledTokenGrantedAtOnce ==
    [][pc = "withRateLimit" =>
        LET elapsedMs == now - lastRefill
            refilled == Min(burstLimit * TokenUnit, tokens + elapsedMs * requestsPerMinute)
            granted == /\ pc' = "call_fn"
                       /\ now' = now
                       /\ sleepMs' = 0
                       /\ hist'.waitLog = hist.waitLog
                       /\ hist'.acquisitions = hist.acquisitions + 1
        IN  /\ refilled >= TokenUnit => (granted /\ tokens' = refilled - TokenUnit)
            /\ (tokens = 0 /\ elapsedMs * requestsPerMinute = 60 * 1000) =>
                  (granted /\ tokens' = 0)
      ]_vars

\* C20 witness: a throttle emptied the bucket, exactly 2 s (60 / 30) went by,
\* and the next acquisition was granted without a wait, leaving no token.
GrantedAfterExactRefill ==
    /\ pc = "call_fn"
    /\ hist.fnErrors = <<RateLimitError(2)>>
    /\ hist.waitLog = << <<"throttle", 2000>> >>
    /\ hist.acquisitions = 2
    /\ now = 2000
    /\ tokens = 0

\* ------------------------------------------- claims of the third group
\* C21: a single caller of waitForToken that finds less than one token after
\* the refill is suspended for exactly (1 - tokens) / requestsPerMinute minutes
\* and is then granted exactly one token; a token is granted only at an
\* instant at which the refill has brought the bucket to at least one token,
\* and the suspension ends at the first such instant.
SingleCallerWaitsForRefill ==
    [][/\ (pc = "withRateLimit" /\ pc' = "waitForToken_sleep") =>
            LET t == Min(burstLimit * TokenUnit,
                         tokens + (now - lastRefill) * requestsPerMinute)
            IN  /\ t < TokenUnit
                \* sleepMs / 60000 minutes = (1 - t / TokenUnit) / requestsPerMinute
                /\ sleepMs' * requestsPerMinute = TokenUnit - t
       /\ pc = "waitForToken_sleep" =>
            /\ now' = now + sleepMs
            /\ pc' = "call_fn"
            /\ tokens + (now' - 1 - lastRefill) * requestsPerMinute < TokenUnit
       /\ hist'.acquisitions # hist.acquisitions =>
            LET refilled == Min(burstLimit * TokenUnit,
                                tokens + (now' - lastRefill) * requestsPerMinute)
            IN  /\ hist'.acquisitions = hist.acquisitions + 1
                /\ refilled >= TokenUnit
                /\ tokens' = refilled - TokenUnit
      ]_vars

\* C21 witness: a throttle left half a token after its 1 s wait; the caller
\* slept the 1 s the other half takes and was granted the token, leaving none.
GrantedAfterSleepingForRefill ==
    /\ pc = "call_fn"
    /\ Len(hist.waitLog) >= 2
    /\ Last(hist.waitLog) = <<"token", 1000>>
    /\ hist.waitLog[Len(hist.waitLog) - 1] = <<"throttle", 1000>>
    /\ tokens = 0
    /\ lastRefill = now

\* C22: the onRetry observer is called exactly once for every transient
\* failure that is followed by a backoff retry, with the attempt number and
\* the error, never for a throttled failure, and whatever it does (raising
\* included) the call goes on as it does without an observer: backoff wait of
\* getBackoffDelay(attempt) while attempt < maxRetries, else the task's error.
ObserverLeavesControlFlow ==
    [][(pc = "fn" /\ Len(hist'.fnErrors) > Len(hist.fnErrors)) =>
        LET error == Last(hist'.fnErrors) IN
        IF error.kind = "RateLimitError"
        THEN /\ hist'.observed = hist.observed
             /\ pc' = "handleRateLimitResponse_sleep"
        ELSE IF attempt < maxRetries
        THEN /\ hist'.observed = Append(hist.observed, <<attempt, error>>)
             /\ pc' = "backoff_sleep"
             /\ sleepMs' = getBackoffDelay(attempt)
        ELSE /\ hist'.observed = hist.observed
             /\ pc' = "thrown"
             /\ thrown' = error
      ]_vars

\* C23: the first successful task invocation ends the call: its result is
\* returned, and no token acquisition, wait, observer call or task invocation
\* happens afterwards.
FirstSuccessEndsCall ==
    [][/\ (pc = "fn" /\ hist'.fnErrors = hist.fnErrors) =>
            /\ pc' = "returned"
            /\ result' \in TaskValues
            /\ hist' = hist
            /\ now' = now
            /\ tokens' = tokens
       /\ pc # "returned"
      ]_vars

\* C23 witness: the third invocation succeeded, after two observed backoff
\* retries, and the call returned its value.
ReturnedAfterObservedRetries ==
    /\ pc = "returned"
    /\ result \in TaskValues
    /\ hist.invocations = 3
    /\ hist.acquisitions = 3
    /\ Len(hist.observed) = 2
    /\ Len(hist.fnErrors) = 2

\* C24: when any one of REDDIT_CLIENT_ID, REDDIT_CLIENT_SECRET and
\* REDDIT_USER_AGENT is missing from the environment, createRedditClient
\* fails with a configuration error and creates no client.
MissingVariableFailsCreation ==
    (/\ pc = "unit_returned"
     /\ result.fn = "createRedditClient"
     /\ \E v \in DOMAIN result.arg : ~result.arg[v].set) =>
        (result.value.kind = "throw" /\ result.value.client = NoClient)

\* C25: every outbound HTTP call of the transport, the credential exchange
\* included, is preceded by a token acquisition of its own at the shared
\* RateLimiter.
EveryOutboundCallAcquires ==
    [][/\ hist'.exchanges # hist.exchanges =>
            tokens' = Min(burstLimit * TokenUnit,
                          tokens + (now - lastRefill) * requestsPerMinute) - TokenUnit
       /\ hist'.invocations > hist.invocations => hist.acquisitions = hist'.invocations
      ]_vars

\* C26: with the default configuration no 60-second window of a run contains
\* more than 30 rate-limited requests.
AtMostThirtyPerMinute ==
    \A i, j \in 1 .. Len(grantLog) :
        (i <= j /\ grantLog[j] - grantLog[i] < 60 * 1000) => j - i + 1 <= 30

\* The (keyword, subreddit) pairs in the order of collect()'s keyword loop and
\* search()'s subreddit loop
LoopOrder ==
    [n \in 1 .. Len(AllKeywords) * Len(MONITORED_SUBREDDITS) |->
        <<(n - 1) \div Len(MONITORED_SUBREDDITS) + 1,
          ((n - 1) % Len(MONITORED_SUBREDDITS)) + 1>>]

\* Where the run stands while a request() call has not ended
RequestInFlight ==
    pc \in {"authenticate", "exchange", "withRateLimit", "waitForToken_sleep", "call_fn", "fn",
            "handleRateLimitResponse_sleep", "backoff_sleep", "catch"}

\* C27: during collect() the requests are issued strictly one after the other
\* in the order of the keyword loop and, inside it, the subreddit loop: a
\* request starts only after the request of the preceding pair has ended (it
\* succeeded or finally failed), at most one is in flight, and every token
\* acquisition, wait and fetch belongs to the one in flight.
RequestsStrictlySequential ==
    LET r == hist.requests IN
    /\ Len(r) <= 2 * Len(LoopOrder)
    /\ \A n \in 1 .. Len(r) :
          r[n] = <<IF n % 2 = 1 THEN "start" ELSE "end",
                   LoopOrder[(n + 1) \div 2][1], LoopOrder[(n + 1) \div 2][2]>>
    /\ RequestInFlight <=> Len(r) % 2 = 1
    /\ RequestInFlight => Last(r) = <<"start", keywordIdx, subredditIdx>>

\* C27 witness: the four requests of the run were issued and have ended, one
\* of them after its retries were exhausted.
AllRequestsIssuedInTurn ==
    /\ pc = "collect"
    /\ Len(hist.requests) = 2 * Len(LoopOrder)
    /\ hist.exhausted
    /\ collectPosts # <<>>

\* C28, as claimed: of the request() calls in flight at once on a client that
\* holds no valid token, at most one performs a credential exchange.
ConcurrentRequestsShareOneExchange ==
    Cardinality({p \in Callers : cpc[p] = "exchange"}) <= 1

\* C28, amended: authenticate() is not guarded: every request() call that
\* finds no valid token when it checks performs a credential exchange of its
\* own, also while the exchange of another call is in flight, so there are up
\* to as many exchanges as calls; every fetch is sent after a token was
\* stored and carries a token that one of the exchanges returned.
EachRequestExchangesForItself ==
    /\ hist.exchanges <= Cardinality({p \in Callers : cpc[p] # "idle"})
    /\ Cardinality({p \in Callers : cpc[p] = "exchange"}) <= hist.exchanges
    /\ hist.tokenResponse.access_token <= hist.exchanges
    /\ accessToken = hist.tokenResponse.access_token
    /\ (\E p \in Callers : cpc[p] = "withRateLimit") => accessToken # NoToken
    /\ \A i \in 1 .. Len(hist.carried) :
          hist.carried[i] \in 1 .. hist.tokenResponse.access_token

\* C28 witness: two calls found no token at the same instant, each performed
\* an exchange, and both sent their fetch.
TwoCallsTwoExchanges ==
    /\ now = 0
    /\ hist.exchanges = 2
    /\ hist.tokenResponse.access_token = 2
    /\ Len(hist.carried) = 2
    /\ ~hist.authRejected

\* The waits of a withRateLimit call, added up
RECURSIVE SumWaits(_)
SumWaits(waits) == IF waits = <<>> THEN 0 ELSE Head(waits)[2] + SumWaits(Tail(waits))

\* C29, as claimed: every fetch attempt of request(), retries included,
\* carries an access token for which now < tokenExpiry holds when it is sent.
EveryAttemptBeforeExpiry ==
    pc = "fn" => (accessToken # NoToken /\ now < tokenExpiry)

\* C29, amended: the validity check is made once per request(), before the
\* first attempt: every attempt of the request carries the one token held
\* then, which had just been received or satisfied now < tokenExpiry at the
\* check; an attempt is sent later than the check by the waits made inside
\* withRateLimit, and may be sent at or after tokenExpiry.
AttemptCarriesCheckedToken ==
    pc = "fn" =>
        /\ accessToken # NoToken
        /\ Len(hist.carried) = hist.invocations
        /\ \A i \in 1 .. Len(hist.carried) : hist.carried[i] = accessToken
        /\ now = hist.authenticatedAt + SumWaits(hist.waitLog)
        /\ \/ hist.authenticatedAt < tokenExpiry
           \/ hist.authenticatedAt = hist.tokenResponse.receivedAt

\* C29 witness: a retry was sent, after its waits, at or after the tokenExpiry
\* of the token that had passed the check.
RetrySentAfterExpiry ==
    /\ pc = "fn"
    /\ attempt >= 1
    /\ hist.authenticatedAt < tokenExpiry
    /\ now >= tokenExpiry
    /\ Last(hist.carried) = accessToken

\* C30, as claimed: every backoff wait and every throttle wait of
\* withRateLimit is followed by another task invocation; it never sleeps and
\* then raises the error.
NoWaitBeforeRaising ==
    [][(pc = "backoff_sleep" \/ pc = "handleRateLimitResponse_sleep") => thrown' = thrown
      ]_vars

\* C30, amended: a wait is followed by another run of the loop body, which
\* acquires a token and invokes the task, exactly when it was made before the
\* last attempt the loop allows (attempt < 3, the default maxRetries).  A
\* backoff wait is begun only while attempt < the limiter's maxRetries, so
\* with the default configuration every backoff wait is followed by an
\* invocation; a throttle wait is made on every attempt, and the one of the
\* last attempt is followed by raising the RateLimitError without invoking
\* the task.
OnlyLastThrottleWaitRaises ==
    [][/\ (pc = "backoff_sleep" \/ pc = "handleRateLimitResponse_sleep") =>
            /\ (pc' = "withRateLimit") = (attempt < maxRetries)
            /\ (pc' = "thrown") = (attempt = maxRetries)
            /\ pc' = "thrown" => thrown' = lastError
            /\ now' = now + sleepMs
       /\ pc = "backoff_sleep" => attempt < hist.config.maxRetries
       /\ (pc = "handleRateLimitResponse_sleep" /\ pc' = "thrown") =>
            thrown'.kind = "RateLimitError"
       /\ pc = "withRateLimit" => pc' \in {"call_fn", "waitForToken_sleep"}
       /\ pc = "waitForToken_sleep" => pc' = "call_fn"
       /\ pc = "call_fn" => (pc' = "fn" /\ hist'.invocations = hist.invocations + 1)
      ]_vars

\* C30 witness: a transient failure was retried after its backoff wait, and a
\* throttled failure on the last attempt was raised after its throttle wait.
RaisedAfterLastThrottleWait ==
    /\ pc = "thrown"
    /\ thrown.kind = "RateLimitError"
    /\ BackoffWaits # <<>>
    /\ Last(hist.waitLog)[1] = "throttle"
    /\ now >= Last(hist.waitLog)[2]
    /\ hist.invocations = maxRetries + 1

\* ------------------------------------------- claims of the fourth group
\* C31: for a RateLimiter constructed with any maxRetries = m and a task that
\* always fails transiently, withRateLimit invokes the task exactly m + 1
\* times.
InvocationsFollowLimiterConfig ==
    (pc = "thrown" /\ Throttles = {}) => hist.invocations = hist.config.maxRetries + 1

\* C32: while one caller is suspended inside handleRateLimitResponse, before
\* its throttle wait is over, no waitForToken call of any caller of the same
\* RateLimiter returns.
NoGrantDuringThrottleWait ==
    [][(\E p \in Callers : cpc[p] = "handleRateLimitResponse_sleep" /\ now < cwake[p]) =>
            grantLog' = grantLog
      ]_vars

\* C33: refilling at an instant and again at a later one yields what
\* refilling once at the later one does; inserting getStatus() calls changes
\* neither the grant times nor the outcomes of the waitForToken calls that
\* follow (each sleeps as long as it does with the getStatus() calls left
\* out); lastRefill never decreases.
ObservingLimiterChangesNothing ==
    [][/\ lastRefill' >= lastRefill
       /\ Min(burstLimit * TokenUnit,
              Min(burstLimit * TokenUnit, tokens + (now - lastRefill) * requestsPerMinute)
                  + (now' - now) * requestsPerMinute)
            = Min(burstLimit * TokenUnit, tokens + (now' - lastRefill) * requestsPerMinute)
       /\ hist'.lastWait.observed = hist'.lastWait.unobserved
      ]_vars

\* C34: a rejected credential exchange leaves accessToken and tokenExpiry as
\* they were before the authenticate() call; that request() call sends no
\* search request (fn is not invoked, no limiter token is taken); and the
\* next request() call attempts the exchange again: the session is not valid
\* when the rejection is raised, stays as it is while search() catches the
\* error and goes on to the next request(), whose authenticate() then
\* exchanges.
RejectedExchangeLeavesSession ==
    [][/\ (pc = "exchange" /\ pc' = "catch") =>
              /\ accessToken' = accessToken
              /\ tokenExpiry' = tokenExpiry
              /\ hist'.invocations = hist.invocations
              /\ hist'.acquisitions = hist.acquisitions
              /\ tokens' = tokens
              /\ ~tokenValid'
       /\ (pc = "catch" \/ pc = "search" \/ pc = "collect") =>
              /\ accessToken' = accessToken
              /\ tokenExpiry' = tokenExpiry
              /\ now' = now
              /\ hist'.invocations = hist.invocations
       /\ (pc = "authenticate" /\ ~tokenValid) => pc' = "exchange"
      ]_vars

RejectedThenExchangedAgain ==
    /\ pc = "exchange"
    /\ hist.tokenExchanges >= 2
    /\ hist.authRejected
    /\ accessToken = NoToken

\* The taxonomy keywords (by index in AllKeywords) that the lower-cased title
\* and content of each child contain
ChildKeywordsContained ==
    [c \in 1 .. Len(RawChildren) |->
        {j \in 1 .. Len(AllKeywords) :
            includes(toLowerCase(Spaced(ChildLead[c].title, ChildLead[c].content)),
                     toLowerCase(AllKeywords[j]))}]

\* The i-th listed post is the first one listed with its id
ListedFirst(i) ==
    \A j \in 1 .. (i - 1) : RawChildren[hist.listed[j]].id # RawChildren[hist.listed[i]].id

\* C35 as stated: every lead returned by collect() has a non-empty
\* matchedKeywords list.
EveryLeadMatchesAKeyword ==
    pc \in {"returned", "exit_0"} =>
        \A k \in 1 .. Len(leads) : leads[k].matchedKeywords # <<>>

\* C35 as amended: every lead returned by collect() is the lead of a post as
\* the searches first listed it, which shows genuine intent, and its
\* matchedKeywords holds exactly the taxonomy keywords its lower-cased title
\* and content contain, none when they contain none; every post that shows
\* genuine intent as first listed is returned, whether or not it contains a
\* keyword.
LeadsRecordContainedKeywords ==
    pc \in {"returned", "exit_0"} =>
        /\ \A k \in 1 .. Len(leads) :
              \E i \in 1 .. Len(hist.listed) :
                 LET c == hist.listed[i] IN
                 /\ ListedFirst(i)
                 /\ ChildHasIntent[c]
                 /\ leads[k].sourceId = RawChildren[c].id
                 /\ leads[k].title = RawChildren[c].title
                 /\ leads[k].content = RawChildren[c].selftext
                 /\ \A j \in 1 .. Len(AllKeywords) :
                        (j \in ChildKeywordsContained[c]) <=>
                            (\E n \in 1 .. Len(leads[k].matchedKeywords) :
                                leads[k].matchedKeywords[n] = AllKeywords[j])
                 /\ Len(leads[k].matchedKeywords) = Cardinality(ChildKeywordsContained[c])
        /\ \A i \in 1 .. Len(hist.listed) :
              (ListedFirst(i) /\ ChildHasIntent[hist.listed[i]]) =>
                  \E k \in 1 .. Len(leads) : leads[k].sourceId = RawChildren[hist.listed[i]].id

\* C35 witness: collect() returned the lead of a post with genuine intent
\* that contains no keyword of the taxonomy.
ReturnedLeadWithoutKeyword ==
    /\ pc = "returned"
    /\ \E k \in 1 .. Len(leads) :
          /\ leads[k].sourceId = "c"
          /\ leads[k].matchedKeywords = <<>>
====
